---- MODULE Spec2Model ----
(***************************************************************************)
(* Model of pdf_sig: the geometry functions of layout.py, the              *)
(* SignatureController and DocumentController of controllers.py, and the   *)
(* event handlers of the application window (gui.py, PDFFormApp).          *)
(*                                                                         *)
(* Coordinates are Python floats in the source.  They are modelled as      *)
(* exact rationals <<n, d>> in lowest terms with d > 0, so a division is   *)
(* a division and not the identity; floating-point rounding is not         *)
(* modelled.                                                               *)
(***************************************************************************)
EXTENDS Integers, Sequences, FiniteSets, TLC

VARIABLES
    signature_controller,   \* SignatureController: image_path, rect, page_index, max_width_points
    last,                   \* the last controller call: its name, arguments, prior state, result
    resizes,                \* the number of resize calls (in the window: of drag and resize
                            \* motions) since the rectangle was last set or cleared
    call,                   \* the last call of a layout.py function: arguments and result
    doc_controller,         \* DocumentController: doc, current_file, page_index
    app,                    \* PDFFormApp: its two controllers and the fields of the window
    env                     \* what surrounds the window: the pointer's button

vars == <<signature_controller, last, resizes, call, doc_controller, app, env>>

\* The variables of the document controller and of the application window.
appVars == <<doc_controller, app, env>>

(***************************************************************************)
(* Bounds of the model.                                                    *)
(***************************************************************************)
\* clamp_rect is exercised on the grid 20 * (-1 .. MaxGrid - 1).
MaxGrid == 3
\* A placement is resized at most this many times before it is placed anew or cleared.
MaxResizes == 2
\* A document has 1 .. MaxPages pages.
MaxPages == 3
\* In the window a placement is moved by at most this many pointer motions
\* before it is placed anew or cleared.
MaxMotions == 1

\* A form document has at most MaxFormPages pages and at most MaxWidgets
\* widgets on them.
MaxFormPages == 2
MaxWidgets == 3

\* With the handles counted, documents are opened and saved while fewer than
\* MaxHandles handles are open.
MaxHandles == 3

(***************************************************************************)
(* Program constants.                                                      *)
(***************************************************************************)
DEFAULT_MAX_SIGNATURE_WIDTH == 200
\* new_signature_rect: width = max(10.0, ...)
MIN_SIGNATURE_WIDTH == 10
\* resize(..., min_width=20, min_height=20)
DEFAULT_MIN_SIZE == 20

\* Python's None, and the values of an Optional field: a Path, an int.  (A
\* rectangle is a record, which TLC can compare with None as it stands.)
None == <<>>
Path(name) == [name |-> name]
Index(i) == <<i>>

(***************************************************************************)
(* Python float arithmetic, as exact rationals.                            *)
(***************************************************************************)
Abs(n) == IF n < 0 THEN -n ELSE n

RECURSIVE GCD(_, _)
GCD(a, b) == IF b = 0 THEN a ELSE GCD(b, a % b)

\* n / d in lowest terms, d # 0.
Rat(n, d) ==
    LET g == GCD(Abs(n), Abs(d))
        s == IF d < 0 THEN -1 ELSE 1
    IN  <<(s * n) \div g, (s * d) \div g>>

Q(n) == <<n, 1>>

Add(a, b) == Rat(a[1] * b[2] + b[1] * a[2], a[2] * b[2])
Sub(a, b) == Rat(a[1] * b[2] - b[1] * a[2], a[2] * b[2])
Mul(a, b) == Rat(a[1] * b[1], a[2] * b[2])
\* a / b, b # 0 (Python raises ZeroDivisionError otherwise; callers test first).
Div(a, b) == Rat(a[1] * b[2], a[2] * b[1])
Lt(a, b)  == a[1] * b[2] < b[1] * a[2]
Le(a, b)  == a[1] * b[2] <= b[1] * a[2]
\* Python's max(a, b) and min(a, b): the first argument wins a tie.
Max(a, b) == IF Lt(a, b) THEN b ELSE a
Min(a, b) == IF Lt(b, a) THEN b ELSE a
IsZero(a) == a[1] = 0

(***************************************************************************)
(* fitz.Rect: four floats; width and height are never negative; a          *)
(* rectangle whose four coordinates are all 0 is falsy.                    *)
(***************************************************************************)
Rect(x0, y0, x1, y1) == [x0 |-> x0, y0 |-> y0, x1 |-> x1, y1 |-> y1]
IntRect(x0, y0, x1, y1) == Rect(Q(x0), Q(y0), Q(x1), Q(y1))

RectWidth(r)  == Max(Q(0), Sub(r.x1, r.x0))
RectHeight(r) == Max(Q(0), Sub(r.y1, r.y0))

\* bool(rect) for an Optional[fitz.Rect].
Truthy(r) ==
    /\ r # None
    /\ ~(IsZero(r.x0) /\ IsZero(r.y0) /\ IsZero(r.x1) /\ IsZero(r.y1))

(***************************************************************************)
(* layout.py                                                               *)
(***************************************************************************)
\* A clamp that shrinks the rectangle into the bounds instead of sliding it.
clamp_rect_shrinking(rect, bounds) ==
    Rect(Max(rect.x0, bounds.x0), Max(rect.y0, bounds.y0),
         Min(rect.x1, bounds.x1), Min(rect.y1, bounds.y1))

\* A clamp without the second, top-left correction.
clamp_rect_no_top_left(rect, bounds) ==
    LET dx == Max(Q(0), Sub(rect.x1, bounds.x1))
        dy == Max(Q(0), Sub(rect.y1, bounds.y1))
    IN  Rect(Sub(rect.x0, dx), Sub(rect.y0, dy), Sub(rect.x1, dx), Sub(rect.y1, dy))

\* A clamp whose shift is not cut off at 0: dx = x1 - bounds.x1.
clamp_rect_without_max(rect, bounds) ==
    LET dx == Sub(rect.x1, bounds.x1)
        dy == Sub(rect.y1, bounds.y1)
        a  == Rect(Sub(rect.x0, dx), Sub(rect.y0, dy), Sub(rect.x1, dx), Sub(rect.y1, dy))
        b  == IF Lt(a.x0, bounds.x0)
              THEN [a EXCEPT !.x1 = Add(a.x1, Sub(bounds.x0, a.x0)), !.x0 = bounds.x0]
              ELSE a
        c  == IF Lt(b.y0, bounds.y0)
              THEN [b EXCEPT !.y1 = Add(b.y1, Sub(bounds.y0, b.y0)), !.y0 = bounds.y0]
              ELSE b
    IN  c

clamp_rect(rect, bounds) ==
    LET dx == Max(Q(0), Sub(rect.x1, bounds.x1))
        dy == Max(Q(0), Sub(rect.y1, bounds.y1))
        a  == Rect(Sub(rect.x0, dx), Sub(rect.y0, dy), Sub(rect.x1, dx), Sub(rect.y1, dy))
        b  == IF Lt(a.x0, bounds.x0)
              THEN [a EXCEPT !.x1 = Add(a.x1, Sub(bounds.x0, a.x0)), !.x0 = bounds.x0]
              ELSE a
        c  == IF Lt(b.y0, bounds.y0)
              THEN [b EXCEPT !.y1 = Add(b.y1, Sub(bounds.y0, b.y0)), !.y0 = bounds.y0]
              ELSE b
    IN  c

canvas_to_pdf(x, y, page_rect, page_scale) ==
    <<Add(Mul(x, page_scale[1]), page_rect.x0), Add(Mul(y, page_scale[2]), page_rect.y0)>>

ZeroDivisionError == [raised |-> "ZeroDivisionError"]

\* pdf_rect_to_canvas_rect that forgets the page origin.
pdf_rect_to_canvas_rect_no_origin(rect, page_rect, page_scale) ==
    IF IsZero(page_scale[1]) \/ IsZero(page_scale[2])
    THEN ZeroDivisionError
    ELSE <<Div(rect.x0, page_scale[1]), Div(rect.y0, page_scale[2]),
           Div(rect.x1, page_scale[1]), Div(rect.y1, page_scale[2])>>

pdf_rect_to_canvas_rect(rect, page_rect, page_scale) ==
    IF IsZero(page_scale[1]) \/ IsZero(page_scale[2])
    THEN ZeroDivisionError
    ELSE <<Div(Sub(rect.x0, page_rect.x0), page_scale[1]),
           Div(Sub(rect.y0, page_rect.y0), page_scale[2]),
           Div(Sub(rect.x1, page_rect.x0), page_scale[1]),
           Div(Sub(rect.y1, page_rect.y0), page_scale[2])>>

\* An aspect that falls back to 0 for an image of width 0.
Aspect_zero_fallback(image_size) ==
    IF image_size[1] # 0 THEN Rat(image_size[2], image_size[1]) ELSE Q(0)

\* image_size[1] / image_size[0] if image_size[0] else 1.0
Aspect(image_size) ==
    IF image_size[1] # 0 THEN Rat(image_size[2], image_size[1]) ELSE Q(1)


\* A width that ignores the page width.
SignatureWidth_no_page(page_rect, max_width_points) ==
    Max(Q(MIN_SIGNATURE_WIDTH), max_width_points)

\* width = max(10.0, min(max_width_points, page_rect.width))
SignatureWidth(page_rect, max_width_points) ==
    Max(Q(MIN_SIGNATURE_WIDTH), Min(max_width_points, RectWidth(page_rect)))

new_signature_rect(canvas_x, canvas_y, page_rect, page_scale, image_size, max_width_points) ==
    LET width  == SignatureWidth(page_rect, max_width_points)
        height == Mul(width, Aspect(image_size))
        p      == canvas_to_pdf(canvas_x, canvas_y, page_rect, page_scale)
        rect   == Rect(p[1], p[2], Add(p[1], width), Add(p[2], height))
    IN  clamp_rect(rect, page_rect)

(***************************************************************************)
(* controllers.py: SignatureController.  Each method is a function of the  *)
(* controller's fields (self) and the arguments; it yields the fields      *)
(* after the call and the value returned.                                  *)
(***************************************************************************)
SignatureController(max_width_points) ==
    [image_path |-> None, rect |-> None, page_index |-> None,
     max_width_points |-> max_width_points]

reset(self) ==
    [self |-> [self EXCEPT !.image_path = None, !.rect = None, !.page_index = None],
     result |-> None]

\* A set_image that keeps the placement made with the previous image.
set_image_keeps_placement(self, image_path) ==
    [self |-> [self EXCEPT !.image_path = image_path], result |-> None]

set_image(self, image_path) ==
    [self |-> [self EXCEPT !.image_path = image_path, !.rect = None, !.page_index = None],
     result |-> None]

place_on_page(self, canvas_x, canvas_y, page_index, page_rect, page_scale, image_size) ==
    LET rect == new_signature_rect(canvas_x, canvas_y, page_rect, page_scale,
                                   image_size, self.max_width_points)
    IN  [self |-> [self EXCEPT !.rect = rect, !.page_index = Index(page_index)],
         result |-> rect]

\* A move_to that places an empty rectangle at the point when none is placed.
move_to_unplaced(self, canvas_x, canvas_y, page_rect, page_scale) ==
    LET width  == IF Truthy(self.rect) THEN RectWidth(self.rect) ELSE Q(0)
        height == IF Truthy(self.rect) THEN RectHeight(self.rect) ELSE Q(0)
        x_pdf  == Add(Mul(canvas_x, page_scale[1]), page_rect.x0)
        y_pdf  == Add(Mul(canvas_y, page_scale[2]), page_rect.y0)
        rect   == Rect(x_pdf, y_pdf, Add(x_pdf, width), Add(y_pdf, height))
        new    == clamp_rect(rect, page_rect)
    IN  [self |-> [self EXCEPT !.rect = new], result |-> new]

move_to(self, canvas_x, canvas_y, page_rect, page_scale) ==
    IF ~Truthy(self.rect)
    THEN [self |-> self, result |-> None]
    ELSE LET width  == RectWidth(self.rect)
             height == RectHeight(self.rect)
             x_pdf  == Add(Mul(canvas_x, page_scale[1]), page_rect.x0)
             y_pdf  == Add(Mul(canvas_y, page_scale[2]), page_rect.y0)
             rect   == Rect(x_pdf, y_pdf, Add(x_pdf, width), Add(y_pdf, height))
             new    == clamp_rect(rect, page_rect)
         IN  [self |-> [self EXCEPT !.rect = new], result |-> new]

\* An edge update that follows the pointer without the minimum size.
ResizeEdge_no_minimum(rect, handle, pdf_x, pdf_y, min_width, min_height) ==
    CASE handle = "n" -> [rect EXCEPT !.y0 = pdf_y]
      [] handle = "s" -> [rect EXCEPT !.y1 = pdf_y]
      [] handle = "w" -> [rect EXCEPT !.x0 = pdf_x]
      [] handle = "e" -> [rect EXCEPT !.x1 = pdf_x]
      [] OTHER        -> rect

\* The edge update of resize, before the clamp.
ResizeEdge(rect, handle, pdf_x, pdf_y, min_width, min_height) ==
    CASE handle = "n" -> [rect EXCEPT !.y0 = Min(pdf_y, Sub(rect.y1, min_height))]
      [] handle = "s" -> [rect EXCEPT !.y1 = Max(pdf_y, Add(rect.y0, min_height))]
      [] handle = "w" -> [rect EXCEPT !.x0 = Min(pdf_x, Sub(rect.x1, min_width))]
      [] handle = "e" -> [rect EXCEPT !.x1 = Max(pdf_x, Add(rect.x0, min_width))]
      [] OTHER        -> rect

resize(self, handle, pdf_x, pdf_y, page_rect, min_width, min_height) ==
    IF ~Truthy(self.rect)
    THEN [self |-> self, result |-> None]
    ELSE LET rect == ResizeEdge(self.rect, handle, pdf_x, pdf_y, min_width, min_height)
             new  == clamp_rect(rect, page_rect)
         IN  [self |-> [self EXCEPT !.rect = new], result |-> new]

(***************************************************************************)
(* controllers.py: DocumentController.  The PDF opener is a collaborator:  *)
(* what it does for a call (raise RuntimeError, or return a document) is   *)
(* passed as `opened`.  A document is its file and its number of pages;    *)
(* len(doc) is the number of pages, so a document is truthy when it has    *)
(* pages.                                                                  *)
(***************************************************************************)
RuntimeError == [raised |-> "RuntimeError"]

\* A document handle: the file it was opened from, its number of pages, and the
\* images inserted through it since it was opened, in order.
Document(name, pages) == [name |-> name, page_count |-> pages, images |-> <<>>]

DocumentController == [doc |-> None, current_file |-> None, page_index |-> 0]

\* bool(self.doc)
DocTruthy(doc) == IF doc = None THEN FALSE ELSE doc.page_count # 0

page_count(self) == IF DocTruthy(self.doc) THEN self.doc.page_count ELSE 0

open(self, path, opened) ==
    IF opened = RuntimeError
    THEN [self |-> self, result |-> RuntimeError]
    ELSE [self |-> [self EXCEPT !.doc = opened, !.current_file = path, !.page_index = 0],
          result |-> opened]

\* A reload that drops the current document when the open fails.
reload_closing_on_failure(self, path, opened) ==
    LET out == open(self, path, opened)
    IN  IF out.result = RuntimeError
        THEN [self |-> [self EXCEPT !.doc = None, !.current_file = None, !.page_index = 0],
              result |-> None]
        ELSE out

reload(self, path, opened) ==
    LET out == open(self, path, opened)
    IN  IF out.result = RuntimeError
        THEN [self |-> out.self, result |-> None]
        ELSE out

close(self) ==
    [self |-> [self EXCEPT !.doc = None, !.current_file = None, !.page_index = 0],
     result |-> None]

\* A next_page without the test against the last page.
next_page_unbounded(self) ==
    IF DocTruthy(self.doc)
    THEN [self |-> [self EXCEPT !.page_index = self.page_index + 1], result |-> None]
    ELSE [self |-> self, result |-> None]

next_page(self) ==
    IF DocTruthy(self.doc) /\ self.page_index < page_count(self) - 1
    THEN [self |-> [self EXCEPT !.page_index = self.page_index + 1], result |-> None]
    ELSE [self |-> self, result |-> None]

\* A prev_page that wraps from the first page to the last.
prev_page_wrapping(self) ==
    IF ~DocTruthy(self.doc)
    THEN [self |-> self, result |-> None]
    ELSE IF self.page_index > 0
         THEN [self |-> [self EXCEPT !.page_index = self.page_index - 1], result |-> None]
         ELSE [self |-> [self EXCEPT !.page_index = page_count(self) - 1], result |-> None]

prev_page(self) ==
    IF DocTruthy(self.doc) /\ self.page_index > 0
    THEN [self |-> [self EXCEPT !.page_index = self.page_index - 1], result |-> None]
    ELSE [self |-> self, result |-> None]

clamp_page_index(self) ==
    IF ~DocTruthy(self.doc)
    THEN [self |-> [self EXCEPT !.page_index = 0], result |-> None]
    ELSE [self |-> [self EXCEPT !.page_index =
                        IF page_count(self) - 1 < self.page_index
                        THEN page_count(self) - 1 ELSE self.page_index],
          result |-> None]

(***************************************************************************)
(* gui.py: PDFFormApp as constructed.  The canvas is the set of its items  *)
(* and its two pointer bindings; an item id held by the window is the      *)
(* item's name, which is on the canvas or not (deleted).  `after` is the    *)
(* callbacks scheduled with self.after that have neither fired nor been    *)
(* cancelled.  Texts shown to the user (status bar, page label) and the    *)
(* photo images, held only to keep them alive, are not state of the model. *)
(***************************************************************************)
Item(name) == [item |-> name]
Handle(corner) == <<corner>>
Handler(name) == [handler |-> name]
RenderJob(id) == [after |-> "_render_page", id |-> id]

Canvas == [items |-> {}, motion |-> None, release |-> None]

PDFFormApp ==
    [doc_controller |-> DocumentController,
     signature_controller |-> SignatureController(Q(DEFAULT_MAX_SIGNATURE_WIDTH)),
     page_scale |-> <<Q(1), Q(1)>>,
     page_rect |-> None,
     signature_overlay |-> None,
     signature_image_item |-> None,
     signature_handles |-> {},
     active_handle |-> None,
     is_resizing |-> FALSE,
     is_dragging |-> FALSE,
     drag_offset |-> <<Q(0), Q(0)>>,
     render_job |-> None,
     after |-> {},
     canvas |-> Canvas,
     image_button |-> "disabled",
     save_button |-> "disabled",
     prev_button |-> "disabled",
     next_button |-> "disabled",
     save_as |-> "disabled",
     last_saved |-> None]

\* The pointer's button is up when the window is constructed.
Environment == [button_down |-> FALSE]

(***************************************************************************)
(* Inputs of the layout.py functions.                                      *)
(***************************************************************************)
ClampCoords == {20 * i : i \in -1 .. (MaxGrid - 1)}

\* Rectangles with x0 <= x1 and y0 <= y1 on the grid.
ClampRects ==
    {IntRect(a, b, c, d) : <<a, b, c, d>> \in
        {t \in ClampCoords \X ClampCoords \X ClampCoords \X ClampCoords :
            t[1] <= t[3] /\ t[2] <= t[4]}}

GeomPages ==
    {IntRect(0, 0, 300, 300), IntRect(0, 0, 80, 40), IntRect(10, 10, 60, 60),
     IntRect(0, 0, 8, 8)}

\* PDF units per canvas pixel; 0 is a scale no render produces.
GeomScales == {Q(0), Q(1), Q(2), Rat(1, 2), Rat(-3, 4)}

CanvasCoords == {-20, 0, 10, 25}

CanvasRects ==
    {t \in CanvasCoords \X CanvasCoords \X CanvasCoords \X CanvasCoords :
        t[1] <= t[3] /\ t[2] <= t[4]}

ClickCoords == {-20, 10, 290}

\* (width, height) of the signature image in pixels.
ImageSizes == {<<100, 50>>, <<50, 100>>, <<0, 50>>, <<40, 0>>}

GeomMaxWidths == {5, 80, DEFAULT_MAX_SIGNATURE_WIDTH}

(***************************************************************************)
(* SpecGeom: the functions of layout.py applied to bounded inputs.         *)
(***************************************************************************)
NoCall == [fn |-> "none"]
NoLast == [op |-> "none"]

InitGeom ==
    /\ signature_controller = SignatureController(Q(DEFAULT_MAX_SIGNATURE_WIDTH))
    /\ last = NoLast
    /\ resizes = 0
    /\ call = NoCall
    /\ doc_controller = DocumentController
    /\ app = PDFFormApp
    /\ env = Environment

\* Each call starts from the state in which the previous call has returned and
\* its record has been dropped (ReturnCall).
ClampRectCall ==
    /\ call = NoCall
    /\ \E rect \in ClampRects, bounds \in ClampRects :
        /\ call' = [fn |-> "clamp_rect", rect |-> rect, bounds |-> bounds,
                    result |-> clamp_rect(rect, bounds)]
        /\ UNCHANGED <<signature_controller, last, resizes, appVars>>

\* A canvas rectangle mapped corner by corner to PDF space and back.
RoundTripCall ==
    /\ call = NoCall
    /\ \E c \in CanvasRects, page_rect \in GeomPages, sx \in GeomScales, sy \in GeomScales :
        LET page_scale == <<sx, sy>>
            p0  == canvas_to_pdf(Q(c[1]), Q(c[2]), page_rect, page_scale)
            p1  == canvas_to_pdf(Q(c[3]), Q(c[4]), page_rect, page_scale)
            pdf == Rect(p0[1], p0[2], p1[1], p1[2])
        IN  /\ call' = [fn |-> "round_trip",
                        canvas |-> <<Q(c[1]), Q(c[2]), Q(c[3]), Q(c[4])>>,
                        page_rect |-> page_rect, page_scale |-> page_scale,
                        pdf |-> pdf,
                        back |-> pdf_rect_to_canvas_rect(pdf, page_rect, page_scale)]
            /\ UNCHANGED <<signature_controller, last, resizes, appVars>>

NewSignatureRectCall ==
    /\ call = NoCall
    /\ \E x \in ClickCoords, y \in ClickCoords, page_rect \in GeomPages,
       s \in GeomScales \ {Q(0)}, image_size \in ImageSizes, m \in GeomMaxWidths :
        /\ call' = [fn |-> "new_signature_rect", canvas_x |-> Q(x), canvas_y |-> Q(y),
                    page_rect |-> page_rect, page_scale |-> <<s, s>>,
                    image_size |-> image_size, max_width_points |-> Q(m),
                    result |-> new_signature_rect(Q(x), Q(y), page_rect, <<s, s>>,
                                                  image_size, Q(m))]
        /\ UNCHANGED <<signature_controller, last, resizes, appVars>>

ReturnCall ==
    /\ call # NoCall
    /\ call' = NoCall
    /\ UNCHANGED <<signature_controller, last, resizes, appVars>>

NextGeom == ClampRectCall \/ RoundTripCall \/ NewSignatureRectCall \/ ReturnCall

SpecGeom == InitGeom /\ [][NextGeom]_vars

(***************************************************************************)
(* Inputs of the SignatureController's methods.                            *)
(***************************************************************************)
CtlMaxWidths == {50, DEFAULT_MAX_SIGNATURE_WIDTH}

CtlPaths == {Path("signature.png"), Path("other.png")}

\* The pages a caller shows: a page's index, its rectangle and the scale of its render.
CtlPages ==
    {[page_index |-> 0, page_rect |-> IntRect(0, 0, 200, 200), page_scale |-> <<Q(1), Q(1)>>],
     [page_index |-> 1, page_rect |-> IntRect(10, 10, 60, 60),
      page_scale |-> <<Rat(1, 2), Rat(1, 2)>>]}

CtlImageSizes == {<<100, 100>>, <<100, 50>>, <<50, 250>>}

\* Canvas positions (x, y) of a click or a move, in pixels.
CtlCanvasPoints == {<<50, 50>>, <<-10, 100>>, <<190, 390>>}

\* Resize gestures: the pointer position (pdf_x, pdf_y), inside the pages or
\* outside every page, with the minimum size passed as min_width and min_height.
CtlResizes ==
    {[pdf_x |-> 10, pdf_y |-> 60, min |-> 30],
     [pdf_x |-> -20, pdf_y |-> -20, min |-> DEFAULT_MIN_SIZE],
     [pdf_x |-> 250, pdf_y |-> 250, min |-> DEFAULT_MIN_SIZE]}

Handles == {"n", "s", "w", "e"}

\* The pages a caller passes to move_to and resize: the page the rectangle was
\* placed on; any page when there is no placement (the call is then a no-op).
PagesShown(self) ==
    {page \in CtlPages : self.page_index \in {None, Index(page.page_index)}}

(***************************************************************************)
(* Spec: the SignatureController under any sequence of calls.  `last`      *)
(* records the call that has just returned (arguments, the fields before   *)
(* it, the value returned) until Return drops the record.                  *)
(***************************************************************************)
Init ==
    /\ \E m \in CtlMaxWidths : signature_controller = SignatureController(Q(m))
    /\ last = NoLast
    /\ resizes = 0
    /\ call = NoCall
    /\ doc_controller = DocumentController
    /\ app = PDFFormApp
    /\ env = Environment

\* The controller's fields and `last` after a call that yielded `out`.
Returned(op, args, out) ==
    /\ signature_controller' = out.self
    /\ last' = [op |-> op, args |-> args, pre |-> signature_controller,
                result |-> out.result]
    /\ UNCHANGED <<call, appVars>>

Reset ==
    /\ last = NoLast
    /\ resizes' = 0
    /\ Returned("reset", [none |-> TRUE], reset(signature_controller))

SetImage ==
    /\ last = NoLast
    /\ resizes' = 0
    /\ \E image_path \in CtlPaths :
        Returned("set_image", [image_path |-> image_path],
                 set_image(signature_controller, image_path))

PlaceOnPage ==
    /\ last = NoLast
    /\ resizes' = 0
    /\ \E p \in CtlCanvasPoints, page \in CtlPages, image_size \in CtlImageSizes :
        Returned("place_on_page",
                 [canvas_x |-> Q(p[1]), canvas_y |-> Q(p[2]),
                  page_index |-> page.page_index, page_rect |-> page.page_rect,
                  page_scale |-> page.page_scale, image_size |-> image_size],
                 place_on_page(signature_controller, Q(p[1]), Q(p[2]), page.page_index,
                               page.page_rect, page.page_scale, image_size))

MoveTo ==
    /\ last = NoLast
    /\ UNCHANGED resizes
    /\ \E p \in CtlCanvasPoints, page \in PagesShown(signature_controller) :
        Returned("move_to",
                 [canvas_x |-> Q(p[1]), canvas_y |-> Q(p[2]),
                  page_rect |-> page.page_rect, page_scale |-> page.page_scale],
                 move_to(signature_controller, Q(p[1]), Q(p[2]), page.page_rect,
                         page.page_scale))

Resize ==
    /\ last = NoLast
    /\ resizes < MaxResizes
    /\ resizes' = resizes + 1
    /\ \E handle \in Handles, g \in CtlResizes, page \in PagesShown(signature_controller) :
        Returned("resize",
                 [handle |-> handle, pdf_x |-> Q(g.pdf_x), pdf_y |-> Q(g.pdf_y),
                  page_rect |-> page.page_rect, min_width |-> Q(g.min),
                  min_height |-> Q(g.min)],
                 resize(signature_controller, handle, Q(g.pdf_x), Q(g.pdf_y),
                        page.page_rect, Q(g.min), Q(g.min)))

Return ==
    /\ last # NoLast
    /\ last' = NoLast
    /\ UNCHANGED <<signature_controller, resizes, call, appVars>>

Next == Reset \/ SetImage \/ PlaceOnPage \/ MoveTo \/ Resize \/ Return

Spec == Init /\ [][Next]_vars

(***************************************************************************)
(* SpecDoc: the DocumentController under any sequence of calls.  The       *)
(* opener raises RuntimeError or returns a document of 1 .. MaxPages       *)
(* pages; `last` records the call that has just returned.                  *)
(***************************************************************************)
DocPaths == {Path("dummy.pdf"), Path("x.pdf")}

Openings(path) == {RuntimeError} \cup {Document(path, n) : n \in 1 .. MaxPages}

InitDoc ==
    /\ signature_controller = SignatureController(Q(DEFAULT_MAX_SIGNATURE_WIDTH))
    /\ last = NoLast
    /\ resizes = 0
    /\ call = NoCall
    /\ doc_controller = DocumentController
    /\ app = PDFFormApp
    /\ env = Environment

\* The controller's fields and `last` after a call that yielded `out`.
DocReturned(op, args, out) ==
    /\ doc_controller' = out.self
    /\ last' = [op |-> op, args |-> args, pre |-> doc_controller, result |-> out.result]
    /\ UNCHANGED <<signature_controller, resizes, call, app, env>>

Open ==
    /\ last = NoLast
    /\ \E path \in DocPaths :
        \E opened \in Openings(path) :
            DocReturned("open", [path |-> path, opened |-> opened],
                        open(doc_controller, path, opened))

Reload ==
    /\ last = NoLast
    /\ \E path \in DocPaths :
        \E opened \in Openings(path) :
            DocReturned("reload", [path |-> path, opened |-> opened],
                        reload(doc_controller, path, opened))

Close ==
    /\ last = NoLast
    /\ DocReturned("close", [none |-> TRUE], close(doc_controller))

NextPage ==
    /\ last = NoLast
    /\ DocReturned("next_page", [none |-> TRUE], next_page(doc_controller))

PrevPage ==
    /\ last = NoLast
    /\ DocReturned("prev_page", [none |-> TRUE], prev_page(doc_controller))

ClampPageIndex ==
    /\ last = NoLast
    /\ DocReturned("clamp_page_index", [none |-> TRUE], clamp_page_index(doc_controller))

NextDoc == Open \/ Reload \/ Close \/ NextPage \/ PrevPage \/ ClampPageIndex \/ Return

SpecDoc == InitDoc /\ [][NextDoc]_vars

(***************************************************************************)
(* gui.py: the methods of PDFFormApp.  Each is a function of the window    *)
(* (self) and of what its collaborators answer: the file a dialog returns  *)
(* (None when cancelled), what the PDF opener does, whether the image      *)
(* file decodes.  An event handler yields the window after it and what it  *)
(* reported: "" (nothing), "info" or "error" through the message service,  *)
(* or the name of an exception that left the handler.                      *)
(***************************************************************************)
\* The rendered pages: a page's rectangle and the scale of its render (PDF
\* units per canvas pixel) at the size the window has.
PageRect(page_index) ==
    IF page_index = 0 THEN IntRect(0, 0, 200, 200) ELSE IntRect(10, 10, 60, 60)

PageScale(page_index) ==
    IF page_index = 0 THEN <<Q(1), Q(1)>> ELSE <<Rat(1, 2), Rat(1, 2)>>

HandleNames == {"n", "s", "w", "e"}

OverlayItems(self) ==
    (IF self.signature_overlay # None THEN {"overlay"} ELSE {})
        \cup (IF self.signature_image_item # None THEN {"image"} ELSE {})
        \cup self.signature_handles

\* A removal that leaves the interaction flags as they are.
remove_signature_overlay_keeping_flags(self) ==
    [self EXCEPT
        !.canvas = [items |-> self.canvas.items \ OverlayItems(self),
                    motion |-> None, release |-> None],
        !.signature_overlay = None,
        !.signature_image_item = None,
        !.signature_handles = {}]

remove_signature_overlay(self) ==
    [self EXCEPT
        !.canvas = [items |-> self.canvas.items \ OverlayItems(self),
                    motion |-> None, release |-> None],
        !.signature_overlay = None,
        !.signature_image_item = None,
        !.signature_handles = {},
        !.active_handle = None,
        !.is_resizing = FALSE,
        !.is_dragging = FALSE]

\* The placement is one to draw on the page shown.
OnCurrentPage(self) ==
    self.signature_controller.page_index = Index(self.doc_controller.page_index)

draw_signature_overlay(self, decodable) ==
    IF \/ ~Truthy(self.signature_controller.rect)
       \/ ~Truthy(self.page_rect)
       \/ self.signature_controller.image_path = None
       \/ ~DocTruthy(self.doc_controller.doc)
       \/ ~OnCurrentPage(self)
    THEN remove_signature_overlay(self)
    ELSE LET image   == IF decodable /\ self.signature_image_item = None
                        THEN {"image"} ELSE {}
             overlay == IF self.signature_overlay = None THEN {"overlay"} ELSE {}
             handles == HandleNames \ self.signature_handles
         IN  [self EXCEPT
                 !.canvas.items = self.canvas.items \cup image \cup overlay \cup handles,
                 !.signature_image_item =
                     IF decodable THEN Item("image") ELSE self.signature_image_item,
                 !.signature_overlay = Item("overlay"),
                 !.signature_handles = HandleNames]

\* A render that draws the placement whatever page it was made on.
render_page_any_page(self, decodable) ==
    LET s1 == [self EXCEPT
                  !.after = IF self.render_job # None THEN @ \ {self.render_job} ELSE @,
                  !.render_job = None]
    IN  IF ~DocTruthy(s1.doc_controller.doc)
        THEN [s1 EXCEPT !.canvas.items = {"text"}]
        ELSE LET s2 == [s1 EXCEPT
                           !.canvas.items = {"page"},
                           !.page_rect = PageRect(s1.doc_controller.page_index),
                           !.page_scale = PageScale(s1.doc_controller.page_index)]
             IN  IF Truthy(s2.signature_controller.rect)
                 THEN draw_signature_overlay(
                          [s2 EXCEPT !.signature_controller.page_index =
                                         Index(s2.doc_controller.page_index)],
                          decodable)
                 ELSE remove_signature_overlay(s2)

render_page(self, decodable) ==
    LET s1 == [self EXCEPT
                  !.after = IF self.render_job # None THEN @ \ {self.render_job} ELSE @,
                  !.render_job = None]
    IN  IF ~DocTruthy(s1.doc_controller.doc)
        THEN [s1 EXCEPT !.canvas.items = {"text"}]
        ELSE LET s2 == [s1 EXCEPT
                           !.canvas.items = {"page"},
                           !.page_rect = PageRect(s1.doc_controller.page_index),
                           !.page_scale = PageScale(s1.doc_controller.page_index)]
             IN  IF /\ Truthy(s2.signature_controller.rect)
                    /\ OnCurrentPage(s2)
                    /\ s2.signature_controller.image_path # None
                 THEN draw_signature_overlay(s2, decodable)
                 ELSE remove_signature_overlay(s2)

\* A close that keeps the signature controller's fields.
close_document_keeping_signature(self) ==
    remove_signature_overlay(
        [self EXCEPT
            !.doc_controller = close(self.doc_controller).self,
            !.image_button = "disabled",
            !.save_button = "disabled",
            !.prev_button = "disabled",
            !.next_button = "disabled"])

close_document(self) ==
    remove_signature_overlay(
        [self EXCEPT
            !.doc_controller = close(self.doc_controller).self,
            !.image_button = "disabled",
            !.save_button = "disabled",
            !.prev_button = "disabled",
            !.next_button = "disabled",
            !.signature_controller = reset(self.signature_controller).self])

\* The state of the Prev and Next buttons for the document held.
NavState(self) == IF page_count(self.doc_controller) > 1 THEN "normal" ELSE "disabled"

open_pdf(self, filename, opened) ==
    IF filename = None
    THEN [self |-> self, report |-> ""]
    ELSE LET closed == close_document(self)
             out    == open(closed.doc_controller, filename, opened)
         IN  IF out.result = RuntimeError
             THEN [self |-> closed, report |-> "error"]
             ELSE LET s1 == [closed EXCEPT !.doc_controller = out.self]
                      s2 == [s1 EXCEPT
                                !.save_as = "normal",
                                !.image_button = "normal",
                                !.save_button = "normal",
                                !.prev_button = NavState(s1),
                                !.next_button = NavState(s1)]
                  IN  [self |-> render_page(s2, TRUE), report |-> ""]

open_pdf_after_save(self, filename, opened) ==
    LET out == reload(self.doc_controller, filename, opened)
    IN  IF ~DocTruthy(out.result)
        THEN [self EXCEPT !.doc_controller = out.self]
        ELSE LET s1 == close_document([self EXCEPT !.doc_controller = out.self])
                 s2 == [s1 EXCEPT !.doc_controller = clamp_page_index(s1.doc_controller).self]
                 s3 == [s2 EXCEPT
                           !.save_as = "normal",
                           !.image_button = "normal",
                           !.save_button = "normal",
                           !.prev_button = NavState(s2),
                           !.next_button = NavState(s2)]
             IN  [render_page(s3, TRUE) EXCEPT !.last_saved = filename]

\* operations.py.  PDFOperationError, and the exception a document's load_page
\* raises for a page it does not have, which is the document's own: IndexError
\* or ValueError.
PDFOperationError == [raised |-> "PDFOperationError"]
IndexError == [raised |-> "IndexError"]
ValueError == [raised |-> "ValueError"]

\* config.py
DEFAULT_INSERT_RECT == IntRect(36, 36, 300, 300)

\* insert_image on a document (its pages and the images inserted into them so
\* far, in order), for a page index that is not negative.  `exists` is whether
\* the image file exists, `fault` what doc.load_page raises for a page the
\* document does not have.  It yields the document after the call and the
\* value returned or the exception raised.
insert_image(doc, image_path, page_index, rect, exists, fault) ==
    IF ~exists
    THEN [doc |-> doc, result |-> PDFOperationError]
    ELSE IF page_index \notin 0 .. (doc.page_count - 1)
    THEN [doc |-> doc, result |-> IF fault = IndexError THEN PDFOperationError ELSE fault]
    ELSE LET target_rect == IF Truthy(rect) THEN rect ELSE DEFAULT_INSERT_RECT
         IN  [doc |-> [doc EXCEPT !.images = Append(@,
                          [page_index |-> page_index, rect |-> target_rect,
                           filename |-> image_path, keep_proportion |-> TRUE,
                           overlay |-> TRUE])],
              result |-> target_rect]

\* A Python str, as a value that can stand where None can.
Str(s) == [str |-> s]

\* A form widget: its field name (a str or None), its field value, and how
\* often update() has been called on it.
Widget(field_name) == [field_name |-> field_name, field_value |-> None, updates |-> 0]

\* A page of a form document: what page.widgets() yields (a list, or None).
Page(widgets) == [widgets |-> widgets]

\* A form document: its pages in order; len(doc) is their number.
FormDocument(pages) == [pages |-> pages]

\* `widgets = page.widgets() or []`
WidgetsOrEmpty(page) == IF page.widgets = None THEN <<>> ELSE page.widgets

\* The test without `name and`.
NameInValues_any_name(name, values) == name \in DOMAIN values

\* `name and name in values`: values is a dict, a function on its keys.
NameInValues(name, values) ==
    IF name = None \/ name = Str("") THEN FALSE ELSE name \in DOMAIN values

\* The loop over the widgets of one page: the widgets after it and the names
\* appended to `changed`.
RECURSIVE fill_widgets(_, _)
fill_widgets(widgets, values) ==
    IF widgets = <<>>
    THEN [widgets |-> <<>>, changed |-> <<>>]
    ELSE LET widget == Head(widgets)
             name == widget.field_name
             rest == fill_widgets(Tail(widgets), values)
         IN  IF NameInValues(name, values)
             THEN [widgets |-> <<[widget EXCEPT !.field_value = values[name],
                                                !.updates = @ + 1]>> \o rest.widgets,
                   changed |-> <<name>> \o rest.changed]
             ELSE [widgets |-> <<widget>> \o rest.widgets, changed |-> rest.changed]

\* The loop over the pages: a page's widgets are changed in place, the list
\* page.widgets() yields is as it was.
RECURSIVE fill_pages(_, _)
fill_pages(pages, values) ==
    IF pages = <<>>
    THEN [pages |-> <<>>, changed |-> <<>>]
    ELSE LET page == Head(pages)
             out == fill_widgets(WidgetsOrEmpty(page), values)
             rest == fill_pages(Tail(pages), values)
         IN  [pages |-> <<Page(out.widgets)>> \o rest.pages,
              changed |-> out.changed \o rest.changed]

\* fill_form_fields: the document after the call and the list returned.
fill_form_fields(doc, values) ==
    IF DOMAIN values = {}
    THEN [doc |-> doc, result |-> <<>>]
    ELSE LET out == fill_pages(doc.pages, values)
         IN  [doc |-> FormDocument(out.pages), result |-> out.changed]

\* `self.signature_controller.page_index or 0`
PageIndexOr0(page_index) == IF page_index = None THEN 0 ELSE page_index[1]

\* A save that closes the document when it fails.
save_pdf_closing_on_failure(self, filename, copied, exists, saved, reopened, fault) ==
    IF ~DocTruthy(self.doc_controller.doc) \/ self.doc_controller.current_file = None
    THEN [self |-> self, report |-> "info", written |-> None]
    ELSE IF filename = None
    THEN [self |-> self, report |-> "", written |-> None]
    ELSE IF copied = RuntimeError \/ ~exists \/ ~saved
    THEN [self |-> close_document(self), report |-> "error", written |-> None]
    ELSE [self |-> open_pdf_after_save(self, filename, reopened), report |-> "",
          written |-> [copied EXCEPT !.name = filename]]

\* A save that inserts the image into the document the session holds and
\* writes that document.
save_pdf_on_session_document(self, filename, copied, exists, saved, reopened, fault) ==
    IF ~DocTruthy(self.doc_controller.doc) \/ self.doc_controller.current_file = None
    THEN [self |-> self, report |-> "info", written |-> None]
    ELSE IF filename = None
    THEN [self |-> self, report |-> "", written |-> None]
    ELSE LET sig  == self.signature_controller
             doc  == self.doc_controller.doc
             out  == IF sig.image_path # None /\ sig.rect # None
                     THEN insert_image(doc, sig.image_path, PageIndexOr0(sig.page_index),
                                       sig.rect, exists, fault)
                     ELSE [doc |-> doc, result |-> None]
             s1   == [self EXCEPT !.doc_controller.doc = out.doc]
         IN  IF out.result = PDFOperationError \/ ~saved
             THEN [self |-> s1, report |-> "error", written |-> None]
             ELSE IF out.result \in {IndexError, ValueError}
             THEN [self |-> s1, report |-> out.result.raised, written |-> None]
             ELSE [self |-> open_pdf_after_save(s1, filename, reopened),
                   report |-> "", written |-> [out.doc EXCEPT !.name = filename]]

\* The ways a save can go: the opener's answer for the current file, whether the
\* image file exists, whether doc.save writes the file, the opener's answer
\* for the file written, and what the copy's load_page raises for a page it
\* does not have.  `written` is the file doc.save wrote.
save_pdf(self, filename, copied, exists, saved, reopened, fault) ==
    IF ~DocTruthy(self.doc_controller.doc) \/ self.doc_controller.current_file = None
    THEN [self |-> self, report |-> "info", written |-> None]
    ELSE IF filename = None
    THEN [self |-> self, report |-> "", written |-> None]
    ELSE IF copied = RuntimeError
    THEN [self |-> self, report |-> "error", written |-> None]
    ELSE LET sig  == self.signature_controller
             doc  == copied
             out  == IF sig.image_path # None /\ sig.rect # None
                     THEN insert_image(doc, sig.image_path, PageIndexOr0(sig.page_index),
                                       sig.rect, exists, fault)
                     ELSE [doc |-> doc, result |-> None]
         IN  IF out.result = PDFOperationError
             THEN [self |-> self, report |-> "error", written |-> None]
             ELSE IF out.result \in {IndexError, ValueError}
             THEN [self |-> self, report |-> out.result.raised, written |-> None]
             ELSE IF ~saved
             THEN [self |-> self, report |-> "error", written |-> None]
             ELSE [self |-> open_pdf_after_save(self, filename, reopened),
                   report |-> "", written |-> [out.doc EXCEPT !.name = filename]]

\* Document handles.  What a step does to them: how many it obtained from
\* the PDF opener and how many of the handles obtained it closed.
Ledger(obtained, closed) == [obtained |-> obtained, closed |-> closed]

PlusLedger(a, b) == Ledger(a.obtained + b.obtained, a.closed + b.closed)

\* `self._open_pdf(path)`, the opener called by DocumentController.open and by
\* _save_pdf: a handle unless it raises.  open stores it over self.doc
\* without closing what self.doc held.
open_handles(opened) == Ledger(IF opened = RuntimeError THEN 0 ELSE 1, 0)

\* DocumentController.close: `if self.doc: self.doc.close()`
close_handles(self) == Ledger(0, IF DocTruthy(self.doc) THEN 1 ELSE 0)

\* _open_pdf: _close_document, then doc_controller.open.
open_pdf_handles(self, filename, opened) ==
    IF filename = None
    THEN Ledger(0, 0)
    ELSE PlusLedger(close_handles(self.doc_controller), open_handles(opened))

\* _open_pdf_after_save: doc_controller.reload, and _close_document when the
\* reload yields a document.
open_pdf_after_save_handles(self, filename, opened) ==
    LET out == reload(self.doc_controller, filename, opened)
    IN  IF ~DocTruthy(out.result)
        THEN open_handles(opened)
        ELSE PlusLedger(open_handles(opened), close_handles(out.self))

\* _save_pdf: the copy is opened, and closed by the `doc.close()` that follows
\* `doc.save(filename)` inside the try.
save_pdf_handles(self, filename, copied, exists, saved, reopened, fault) ==
    IF ~DocTruthy(self.doc_controller.doc) \/ self.doc_controller.current_file = None
    THEN Ledger(0, 0)
    ELSE IF filename = None
    THEN Ledger(0, 0)
    ELSE IF copied = RuntimeError
    THEN open_handles(copied)
    ELSE LET sig  == self.signature_controller
             out  == IF sig.image_path # None /\ sig.rect # None
                     THEN insert_image(copied, sig.image_path, PageIndexOr0(sig.page_index),
                                       sig.rect, exists, fault)
                     ELSE [doc |-> copied, result |-> None]
         IN  IF out.result \in {PDFOperationError, IndexError, ValueError} \/ ~saved
             THEN open_handles(copied)
             ELSE PlusLedger(PlusLedger(open_handles(copied), Ledger(0, 1)),
                              open_pdf_after_save_handles(self, filename, reopened))

\* A load that takes the image chosen before it tries to decode it.
load_signature_before_decoding(self, candidate, decodable) ==
    IF ~DocTruthy(self.doc_controller.doc)
    THEN [self |-> self, report |-> "info"]
    ELSE IF candidate = None
    THEN [self |-> self, report |-> ""]
    ELSE LET taken == remove_signature_overlay(
                          [self EXCEPT !.signature_controller =
                               set_image(self.signature_controller, candidate).self])
         IN  [self |-> taken, report |-> IF decodable THEN "" ELSE "error"]

load_signature(self, candidate, decodable) ==
    IF ~DocTruthy(self.doc_controller.doc)
    THEN [self |-> self, report |-> "info"]
    ELSE IF candidate = None
    THEN [self |-> self, report |-> ""]
    ELSE IF ~decodable
    THEN [self |-> self, report |-> "error"]
    ELSE [self |-> remove_signature_overlay(
                       [self EXCEPT !.signature_controller =
                            set_image(self.signature_controller, candidate).self]),
          report |-> ""]

\* x0 <= x <= x1 and y0 <= y <= y1 for a canvas rectangle (x0, y0, x1, y1)
InCanvasRect(c, x, y) == Le(c[1], x) /\ Le(x, c[3]) /\ Le(c[2], y) /\ Le(y, c[4])

point_in_signature(self, canvas_x, canvas_y, page_rect, page_scale) ==
    IF ~Truthy(self.rect)
    THEN FALSE
    ELSE InCanvasRect(pdf_rect_to_canvas_rect(self.rect, page_rect, page_scale),
                      canvas_x, canvas_y)

signature_canvas_rect(self) ==
    IF ~Truthy(self.signature_controller.rect) \/ ~Truthy(self.page_rect)
    THEN <<Q(0), Q(0), Q(0), Q(0)>>
    ELSE pdf_rect_to_canvas_rect(self.signature_controller.rect, self.page_rect,
                                 self.page_scale)

start_drag(self, x, y) ==
    IF ~Truthy(self.signature_controller.rect)
    THEN self
    ELSE LET c == signature_canvas_rect(self)
         IN  IF ~InCanvasRect(c, x, y)
             THEN self
             ELSE [self EXCEPT
                      !.drag_offset = <<Sub(x, c[1]), Sub(y, c[2])>>,
                      !.is_dragging = TRUE,
                      !.canvas.motion = Handler("_drag_move"),
                      !.canvas.release = Handler("_end_drag")]

\* The pixel size of an image file.
ImageSize(image_path) ==
    IF image_path = Path("signature.png") THEN <<100, 50>> ELSE <<50, 250>>

\* A click handler that goes on to drag or place while a resize is active.
handle_canvas_click_while_resizing(self, x, y, decodable) ==
    IF ~DocTruthy(self.doc_controller.doc) \/ ~Truthy(self.page_rect)
    THEN [self |-> self, report |-> ""]
    ELSE IF /\ Truthy(self.signature_controller.rect)
            /\ OnCurrentPage(self)
            /\ point_in_signature(self.signature_controller, x, y,
                                  self.page_rect, self.page_scale)
    THEN [self |-> start_drag(self, x, y), report |-> ""]
    ELSE IF self.signature_controller.image_path = None
    THEN [self |-> self, report |-> ""]
    ELSE IF ~decodable
    THEN [self |-> self, report |-> "OSError"]
    ELSE LET placed == place_on_page(self.signature_controller, x, y,
                                     self.doc_controller.page_index, self.page_rect,
                                     self.page_scale,
                                     ImageSize(self.signature_controller.image_path))
         IN  [self |-> draw_signature_overlay(
                           [self EXCEPT !.signature_controller = placed.self], decodable),
              report |-> ""]

handle_canvas_click(self, x, y, decodable) ==
    IF ~DocTruthy(self.doc_controller.doc) \/ ~Truthy(self.page_rect)
    THEN [self |-> self, report |-> ""]
    ELSE IF /\ Truthy(self.signature_controller.rect)
            /\ OnCurrentPage(self)
            /\ point_in_signature(self.signature_controller, x, y,
                                  self.page_rect, self.page_scale)
            /\ ~self.is_resizing
    THEN [self |-> start_drag(self, x, y), report |-> ""]
    ELSE IF self.signature_controller.image_path = None \/ self.is_resizing
    THEN [self |-> self, report |-> ""]
    ELSE IF ~decodable
    THEN [self |-> self, report |-> "OSError"]
    ELSE LET placed == place_on_page(self.signature_controller, x, y,
                                     self.doc_controller.page_index, self.page_rect,
                                     self.page_scale,
                                     ImageSize(self.signature_controller.image_path))
         IN  [self |-> draw_signature_overlay(
                           [self EXCEPT !.signature_controller = placed.self], decodable),
              report |-> ""]

start_resize(self, corner) ==
    IF ~Truthy(self.signature_controller.rect)
    THEN self
    ELSE [self EXCEPT
             !.active_handle = Handle(corner),
             !.is_resizing = TRUE,
             !.canvas.motion = Handler("_resize_drag"),
             !.canvas.release = Handler("_end_resize")]

resize_drag(self, x, y, decodable) ==
    IF \/ ~Truthy(self.signature_controller.rect)
       \/ ~Truthy(self.page_rect)
       \/ self.active_handle = None
    THEN self
    ELSE LET p    == canvas_to_pdf(x, y, self.page_rect, self.page_scale)
             rect == self.signature_controller.rect
             min_width  == Q(DEFAULT_MIN_SIZE)
             min_height == Q(DEFAULT_MIN_SIZE)
             edge == IF self.active_handle = Handle("n")
                         THEN [rect EXCEPT !.y0 = Min(p[2], Sub(rect.y1, min_height))]
                     ELSE IF self.active_handle = Handle("s")
                         THEN [rect EXCEPT !.y1 = Max(p[2], Add(rect.y0, min_height))]
                     ELSE IF self.active_handle = Handle("w")
                         THEN [rect EXCEPT !.x0 = Min(p[1], Sub(rect.x1, min_width))]
                     ELSE IF self.active_handle = Handle("e")
                         THEN [rect EXCEPT !.x1 = Max(p[1], Add(rect.x0, min_width))]
                     ELSE rect
         IN  draw_signature_overlay(
                 [self EXCEPT !.signature_controller.rect = clamp_rect(edge, self.page_rect)],
                 decodable)

end_resize(self) ==
    [self EXCEPT
        !.canvas.motion = None,
        !.canvas.release = None,
        !.active_handle = None,
        !.is_resizing = FALSE]

\* A drag that puts the rectangle's corner at the pointer.
drag_move_without_offset(self, x, y, decodable) ==
    IF \/ ~self.is_dragging
       \/ ~Truthy(self.signature_controller.rect)
       \/ ~Truthy(self.page_rect)
    THEN self
    ELSE LET width  == RectWidth(self.signature_controller.rect)
             height == RectHeight(self.signature_controller.rect)
             p      == canvas_to_pdf(x, y, self.page_rect, self.page_scale)
             rect   == Rect(p[1], p[2], Add(p[1], width), Add(p[2], height))
         IN  draw_signature_overlay(
                 [self EXCEPT !.signature_controller.rect = clamp_rect(rect, self.page_rect)],
                 decodable)

drag_move(self, x, y, decodable) ==
    IF \/ ~self.is_dragging
       \/ ~Truthy(self.signature_controller.rect)
       \/ ~Truthy(self.page_rect)
    THEN self
    ELSE LET width  == RectWidth(self.signature_controller.rect)
             height == RectHeight(self.signature_controller.rect)
             p      == canvas_to_pdf(Sub(x, self.drag_offset[1]), Sub(y, self.drag_offset[2]),
                                     self.page_rect, self.page_scale)
             rect   == Rect(p[1], p[2], Add(p[1], width), Add(p[2], height))
         IN  draw_signature_overlay(
                 [self EXCEPT !.signature_controller.rect = clamp_rect(rect, self.page_rect)],
                 decodable)

\* An end of drag that leaves the motion handler bound.
end_drag_keeping_motion(self) ==
    [self EXCEPT
        !.canvas.release = None,
        !.is_dragging = FALSE]

end_drag(self) ==
    [self EXCEPT
        !.canvas.motion = None,
        !.canvas.release = None,
        !.is_dragging = FALSE]

\* The id self.after returns: one that no pending callback has.  (Tk numbers
\* its callbacks; the least number free stands for the next one, the numbers
\* of callbacks fired or cancelled being held nowhere.)
NewJob(pending) ==
    RenderJob(CHOOSE i \in 1 .. (Cardinality(pending) + 1) :
                  /\ RenderJob(i) \notin pending
                  /\ \A j \in 1 .. (i - 1) : RenderJob(j) \in pending)

\* A resize handler that schedules a render without cancelling the pending one.
handle_canvas_resize_without_cancel(self) ==
    IF ~DocTruthy(self.doc_controller.doc)
    THEN [self EXCEPT !.canvas.items = {"text"}]
    ELSE LET job == NewJob(self.after)
         IN  [self EXCEPT !.after = self.after \cup {job}, !.render_job = job]

handle_canvas_resize(self) ==
    IF ~DocTruthy(self.doc_controller.doc)
    THEN [self EXCEPT !.canvas.items = {"text"}]
    ELSE LET pending == IF self.render_job # None
                        THEN self.after \ {self.render_job} ELSE self.after
             job     == NewJob(pending)
         IN  [self EXCEPT !.after = pending \cup {job}, !.render_job = job]

(***************************************************************************)
(* SpecApp: the window under any sequence of events.  A dialog answers     *)
(* with one of a few files or None; the pointer's button goes down and up  *)
(* in turn, motion with the button down goes to the handler bound to it,   *)
(* and a button of the window can be used only while it is enabled.        *)
(* `last` records the handler that has just returned: its arguments, the   *)
(* window before it, what it reported.                                     *)
(***************************************************************************)
PdfAnswers == {None, Path("a.pdf"), Path("b.pdf"), Path("corrupt.pdf")}

\* What the PDF opener does with the files a dialog offers.
Opener(path) ==
    IF path = Path("a.pdf") THEN Document(path, 2)
    ELSE IF path = Path("b.pdf") THEN Document(path, 1)
    ELSE RuntimeError

SaveAnswers == {None, Path("signed.pdf")}

\* <<the current file opens, the image file exists, doc.save writes, the file
\* written opens>>: every step of a save can fail, one at a time.  Nothing is
\* tried when the dialog is cancelled.
SaveWays(filename) ==
    IF filename = None
    THEN {<<TRUE, TRUE, TRUE, TRUE>>}
    ELSE {<<FALSE, TRUE, TRUE, TRUE>>, <<TRUE, FALSE, TRUE, TRUE>>,
          <<TRUE, TRUE, FALSE, TRUE>>, <<TRUE, TRUE, TRUE, FALSE>>,
          <<TRUE, TRUE, TRUE, TRUE>>}

\* What a document's load_page may raise for a page the document does not have:
\* IndexError (a sequence of pages, as in the tests) or ValueError (PyMuPDF).
LoadPageFaults == {IndexError, ValueError}

ImageAnswers == {None, Path("signature.png"), Path("bad.png")}

\* Whether Image.open and load succeed on a file when it is chosen.
Decodes(image_path) == image_path # Path("bad.png")

\* Whether the image file chosen earlier still decodes when a click is about to
\* place it.  (While its overlay is drawn it decodes.)
Decodings == {TRUE, FALSE}

\* Canvas positions of a button press, and of the pointer while the button is down.
PressPoints == {<<50, 50>>, <<150, 120>>}
MotionPoints == {<<-10, 100>>, <<190, 390>>}

\* handle_positions: the centre of a handle on the canvas.
HandleCentre(self, corner) ==
    LET c == signature_canvas_rect(self)
        mx == Div(Add(c[1], c[3]), Q(2))
        my == Div(Add(c[2], c[4]), Q(2))
    IN  CASE corner = "n" -> <<mx, c[2]>>
          [] corner = "s" -> <<mx, c[4]>>
          [] corner = "w" -> <<c[1], my>>
          [] OTHER        -> <<c[3], my>>

\* The handles on the canvas whose 12 x 12 square holds the point.
HandlesAt(self, x, y) ==
    {corner \in self.signature_handles \cap self.canvas.items :
        LET h == HandleCentre(self, corner)
        IN  InCanvasRect(<<Sub(h[1], Q(6)), Sub(h[2], Q(6)), Add(h[1], Q(6)), Add(h[2], Q(6))>>,
                         x, y)}

\* The topmost of them: the one created last.
TopHandle(corners) ==
    IF "e" \in corners THEN "e" ELSE IF "w" \in corners THEN "w"
    ELSE IF "s" \in corners THEN "s" ELSE "n"

\* A press: the binding of the handle under the pointer, if any, then the
\* canvas's own <Button-1> binding.
button_press(self, x, y, decodable) ==
    LET corners == HandlesAt(self, x, y)
        s1 == IF corners = {} THEN self ELSE start_resize(self, TopHandle(corners))
    IN  handle_canvas_click(s1, x, y, decodable)

\* The positions a press is tried at: the press points and the handles shown.
PressPositions(self) ==
    {<<Q(p[1]), Q(p[2])>> : p \in PressPoints}
        \cup {HandleCentre(self, corner) : corner \in self.signature_handles \cap self.canvas.items}

InitApp ==
    /\ signature_controller = SignatureController(Q(DEFAULT_MAX_SIGNATURE_WIDTH))
    /\ last = NoLast
    /\ resizes = 0
    /\ call = NoCall
    /\ doc_controller = DocumentController
    /\ app = PDFFormApp
    /\ env = Environment

\* The window and `last` after a handler; a placement made or cleared starts a
\* new count of pointer motions.
Handled(op, args, self, report) ==
    /\ app' = self
    /\ last' = [op |-> op, args |-> args, pre |-> app, report |-> report]
    /\ resizes' = IF self.signature_controller.rect = app.signature_controller.rect
                  THEN resizes ELSE 0
    /\ UNCHANGED <<signature_controller, call, doc_controller>>

OpenPdf ==
    /\ last = NoLast
    /\ UNCHANGED env
    /\ \E filename \in PdfAnswers :
        LET out == open_pdf(app, filename, Opener(filename))
        IN  Handled("_open_pdf", [filename |-> filename], out.self, out.report)

\* What the copy's load_page may raise in a save: it raises only for a page
\* the copy does not have, so that one exception stands for all when the page
\* of the placement is in the copy.
SaveFaults(self, copied) ==
    IF copied = RuntimeError
    THEN {IndexError}
    ELSE IF PageIndexOr0(self.signature_controller.page_index) \in 0 .. (copied.page_count - 1)
         THEN {IndexError}
         ELSE LoadPageFaults

SavePdf ==
    /\ last = NoLast
    /\ app.save_button = "normal" \/ app.save_as = "normal"
    /\ UNCHANGED env
    /\ \E filename \in SaveAnswers :
       \E way \in SaveWays(filename) :
        LET dc       == app.doc_controller
            copied   == IF way[1] /\ dc.doc # None
                        THEN Document(dc.current_file, dc.doc.page_count) ELSE RuntimeError
            reopened == IF way[4] /\ dc.doc # None
                        THEN Document(filename, dc.doc.page_count) ELSE RuntimeError
        IN  \E fault \in SaveFaults(app, copied) :
            LET out == save_pdf(app, filename, copied, way[2], way[3], reopened, fault)
            IN  Handled("_save_pdf",
                        [filename |-> filename, copied |-> copied, exists |-> way[2],
                         saved |-> way[3], reopened |-> reopened, written |-> out.written],
                        out.self, out.report)

LoadSignature ==
    /\ last = NoLast
    /\ app.image_button = "normal"
    /\ UNCHANGED env
    /\ \E candidate \in ImageAnswers :
        LET out == load_signature(app, candidate, Decodes(candidate))
        IN  Handled("_load_signature", [candidate |-> candidate], out.self, out.report)

ButtonPress ==
    /\ last = NoLast
    /\ ~env.button_down
    /\ env' = [env EXCEPT !.button_down = TRUE]
    /\ \E p \in PressPositions(app), decodable \in Decodings :
        LET out == button_press(app, p[1], p[2], decodable)
        IN  Handled("press",
                    [x |-> p[1], y |-> p[2], handles |-> HandlesAt(app, p[1], p[2])],
                    out.self, out.report)

\* <B1-Motion>: pointer motion with the button down, which goes to the handler
\* bound to it, if any.  (Motion with the button up is no <B1-Motion> event, and
\* the window binds no other motion event.)
Motion ==
    /\ last = NoLast
    /\ env.button_down
    /\ resizes < MaxMotions
    /\ UNCHANGED <<env, signature_controller, call, doc_controller>>
    /\ resizes' = resizes + 1
    /\ \E p \in MotionPoints :
        /\ app' = IF app.canvas.motion = Handler("_resize_drag")
                      THEN resize_drag(app, Q(p[1]), Q(p[2]), TRUE)
                  ELSE IF app.canvas.motion = Handler("_drag_move")
                      THEN drag_move(app, Q(p[1]), Q(p[2]), TRUE)
                  ELSE app
        /\ last' = [op |-> "motion", args |-> [x |-> Q(p[1]), y |-> Q(p[2])],
                    pre |-> app, report |-> ""]

\* <ButtonRelease-1>, with or without a handler bound to it.
ButtonRelease ==
    /\ last = NoLast
    /\ env.button_down
    /\ env' = [env EXCEPT !.button_down = FALSE]
    /\ Handled("release", [none |-> TRUE],
               IF app.canvas.release = Handler("_end_resize") THEN end_resize(app)
               ELSE IF app.canvas.release = Handler("_end_drag") THEN end_drag(app)
               ELSE app,
               "")

PrevPageButton ==
    /\ last = NoLast
    /\ app.prev_button = "normal"
    /\ UNCHANGED env
    /\ Handled("_prev_page", [none |-> TRUE],
               render_page([app EXCEPT !.doc_controller = prev_page(app.doc_controller).self],
                           TRUE),
               "")

NextPageButton ==
    /\ last = NoLast
    /\ app.next_button = "normal"
    /\ UNCHANGED env
    /\ Handled("_next_page", [none |-> TRUE],
               render_page([app EXCEPT !.doc_controller = next_page(app.doc_controller).self],
                           TRUE),
               "")

\* <Configure>
CanvasResize ==
    /\ last = NoLast
    /\ UNCHANGED env
    /\ Handled("_handle_canvas_resize", [none |-> TRUE], handle_canvas_resize(app), "")

\* A pending `after` callback fires: Tk takes it off its queue and calls it.
RenderJobFires ==
    /\ last = NoLast
    /\ UNCHANGED env
    /\ \E job \in app.after :
        Handled("_render_page", [job |-> job],
                render_page([app EXCEPT !.after = @ \ {job}], TRUE), "")

NextApp ==
    \/ OpenPdf \/ SavePdf \/ LoadSignature
    \/ ButtonPress \/ Motion \/ ButtonRelease
    \/ PrevPageButton \/ NextPageButton
    \/ CanvasResize \/ RenderJobFires
    \/ Return

SpecApp == InitApp /\ [][NextApp]_vars

(***************************************************************************)
(* SpecOps: the functions of operations.py applied to bounded inputs.      *)
(***************************************************************************)
\* Documents of 0 .. MaxPages pages with nothing inserted yet.
OpsDocs ==
    {Document(Path("dummy.pdf"), n) : n \in 0 .. MaxPages}

\* Image files, and whether they exist.
OpsImages == {Path("sig.png"), Path("does-not-exist.png")}

Exists(image_path) == image_path # Path("does-not-exist.png")

\* The rect argument: left out, a rectangle, the empty rectangle (falsy).
OpsRects == {None, IntRect(10, 20, 30, 40), IntRect(0, 0, 0, 0)}

InitOps == InitGeom

InsertImageCall ==
    /\ call = NoCall
    /\ \E doc \in OpsDocs, image_path \in OpsImages, page_index \in 0 .. (MaxPages + 1),
          rect \in OpsRects, fault \in LoadPageFaults :
        LET out == insert_image(doc, image_path, page_index, rect, Exists(image_path), fault)
        IN  /\ call' = [fn |-> "insert_image", doc |-> doc, image_path |-> image_path,
                        page_index |-> page_index, rect |-> rect,
                        exists |-> Exists(image_path), fault |-> fault,
                        after |-> out.doc, result |-> out.result]
            /\ UNCHANGED <<signature_controller, last, resizes, appVars>>

\* Field names of widgets: none, the empty name, two names.
FormNames == {None, Str(""), Str("name"), Str("email")}

\* Sequences over S of length 0 .. n.
SeqsUpTo(S, n) == UNION {[1 .. k -> S] : k \in 0 .. n}

\* The ways of laying the widgets ws out on k pages, in order: a page has
\* any number of them, none included (its widgets() then yields an empty
\* list, or None, which `or []` makes the same).
RECURSIVE Layouts(_, _)
Layouts(ws, k) ==
    IF k = 0
    THEN IF ws = <<>> THEN {<<>>} ELSE {}
    ELSE UNION {{<<Page(SubSeq(ws, 1, i))>> \o rest :
                    rest \in Layouts(SubSeq(ws, i + 1, Len(ws)), k - 1)} :
                i \in 0 .. Len(ws)}

\* Documents of widgets not yet filled.
FormDocs ==
    UNION {UNION {{FormDocument(ps) : ps \in Layouts(ws, k)} : k \in 0 .. MaxFormPages} :
           ws \in SeqsUpTo({Widget(n) : n \in FormNames}, MaxWidgets)}

\* The value a mapping gives each key.
FormValue(key) ==
    IF key = Str("name") THEN Str("Alice")
    ELSE IF key = Str("email") THEN Str("a@example.org")
    ELSE Str("anonymous")

\* The mappings: every set of keys out of the names that are strings.
FormValues == {[key \in keys |-> FormValue(key)] : keys \in SUBSET (FormNames \ {None})}

FillFormFieldsCall ==
    /\ call = NoCall
    /\ \E doc \in FormDocs, values \in FormValues :
        LET out == fill_form_fields(doc, values)
        IN  /\ call' = [fn |-> "fill_form_fields", doc |-> doc, values |-> values,
                        after |-> out.doc, result |-> out.result]
            /\ UNCHANGED <<signature_controller, last, resizes, appVars>>

NextOps == InsertImageCall \/ FillFormFieldsCall \/ ReturnCall

SpecOps == InitOps /\ [][NextOps]_vars

(***************************************************************************)
(* SpecHandles: the window with the document handles counted.  The         *)
(* environment holds, besides the pointer's button, the number of handles  *)
(* obtained from the PDF opener that have not been closed.  The handlers   *)
(* that open or close documents are _open_pdf and _save_pdf; a placement   *)
(* is made with _load_signature and a click, so that a save inserts.       *)
(***************************************************************************)
InitHandles ==
    /\ signature_controller = SignatureController(Q(DEFAULT_MAX_SIGNATURE_WIDTH))
    /\ last = NoLast
    /\ resizes = 0
    /\ call = NoCall
    /\ doc_controller = DocumentController
    /\ app = PDFFormApp
    /\ env = [button_down |-> FALSE, handles |-> 0]

\* The handles open after a step.
Counted(handles) ==
    env' = [env EXCEPT !.handles = @ + handles.obtained - handles.closed]

OpenPdfCounted ==
    /\ last = NoLast
    /\ env.handles < MaxHandles
    /\ \E filename \in PdfAnswers :
        LET out == open_pdf(app, filename, Opener(filename))
        IN  /\ Handled("_open_pdf", [filename |-> filename], out.self, out.report)
            /\ Counted(open_pdf_handles(app, filename, Opener(filename)))

SavePdfCounted ==
    /\ last = NoLast
    /\ env.handles < MaxHandles
    /\ app.save_button = "normal" \/ app.save_as = "normal"
    /\ \E filename \in SaveAnswers :
       \E way \in SaveWays(filename) :
        LET dc       == app.doc_controller
            copied   == IF way[1] /\ dc.doc # None
                        THEN Document(dc.current_file, dc.doc.page_count) ELSE RuntimeError
            reopened == IF way[4] /\ dc.doc # None
                        THEN Document(filename, dc.doc.page_count) ELSE RuntimeError
        IN  \E fault \in SaveFaults(app, copied) :
            LET out == save_pdf(app, filename, copied, way[2], way[3], reopened, fault)
            IN  /\ Handled("_save_pdf",
                           [filename |-> filename, copied |-> copied, exists |-> way[2],
                            saved |-> way[3], reopened |-> reopened, written |-> out.written],
                           out.self, out.report)
                /\ Counted(save_pdf_handles(app, filename, copied, way[2], way[3],
                                            reopened, fault))

NextHandles ==
    \/ OpenPdfCounted \/ SavePdfCounted \/ LoadSignature
    \/ ButtonPress \/ ButtonRelease
    \/ Return

SpecHandles == InitHandles /\ [][NextHandles]_vars

(***************************************************************************)
(* Vocabulary of the properties.                                           *)
(***************************************************************************)
\* x1 - x0 and y1 - y0 as they stand (fitz.Rect.width would hide a negative one).
DX(r) == Sub(r.x1, r.x0)
DY(r) == Sub(r.y1, r.y0)

SameSize(r, q) == DX(r) = DX(q) /\ DY(r) = DY(q)

\* r lies entirely inside b.
Inside(r, b) ==
    /\ Le(b.x0, r.x0)
    /\ Le(b.y0, r.y0)
    /\ Le(r.x1, b.x1)
    /\ Le(r.y1, b.y1)

\* b is at least as wide and as high as r.
Fits(r, b) == Le(DX(r), DX(b)) /\ Le(DY(r), DY(b))

(***************************************************************************)
(* C1.  For every rectangle R (x0 <= x1, y0 <= y1) and bounds B at least   *)
(* as wide and as high as R, clamp_rect(R, B) lies inside B and has the    *)
(* width and height of R.                                                  *)
(***************************************************************************)
C1_ClampInsideSameSize ==
    (call.fn = "clamp_rect" /\ Fits(call.rect, call.bounds))
        => /\ Inside(call.result, call.bounds)
           /\ SameSize(call.result, call.rect)

\* A rectangle that overflowed the bottom-right of bounds it fits in was slid back.
C1_Witness ==
    /\ call.fn = "clamp_rect"
    /\ Fits(call.rect, call.bounds)
    /\ Lt(call.bounds.x1, call.rect.x1)
    /\ Lt(call.bounds.y1, call.rect.y1)
    /\ Lt(Q(0), DX(call.rect))
    /\ call.result # call.rect

C3_PlacedInsidePage ==
    last.op = "place_on_page"
        => Inside(signature_controller.rect, last.args.page_rect)

(***************************************************************************)
(* C4.  After resize(handle, pdf_x, pdf_y, page_rect) in the Placed state, *)
(* for every handle and every pointer position, also positions outside the *)
(* page, the placement rectangle lies entirely inside page_rect.  Stated   *)
(* for the placements that lie inside the page before the resize, so that  *)
(* a rectangle outside the page is the work of resize alone.               *)
(***************************************************************************)
C4_ResizedInsidePage ==
    ( /\ last.op = "resize"
      /\ Truthy(last.pre.rect)
      /\ Inside(last.pre.rect, last.args.page_rect) )
        => Inside(signature_controller.rect, last.args.page_rect)

(***************************************************************************)
(* C5.  resize never violates the minimum dimensions, whatever the pointer *)
(* position and the page: after handle n or s the height is at least       *)
(* min_height, after handle w or e the width is at least min_width; and    *)
(* resize("w", 10, 60, page (0,0,200,200), min_width=30) on                *)
(* (50,50,100,100) gives x0 = 10 and a width of at least 30.               *)
(***************************************************************************)
C5_ResizeKeepsMinimum ==
    (last.op = "resize" /\ Truthy(last.pre.rect))
        => /\ last.args.handle \in {"n", "s"}
                => Le(last.args.min_height, DY(signature_controller.rect))
           /\ last.args.handle \in {"w", "e"}
                => Le(last.args.min_width, DX(signature_controller.rect))
           /\ ( /\ last.pre.rect = IntRect(50, 50, 100, 100)
                /\ last.args.handle = "w"
                /\ last.args.pdf_x = Q(10)
                /\ last.args.page_rect = IntRect(0, 0, 200, 200)
                /\ last.args.min_width = Q(30) )
                => /\ signature_controller.rect.x0 = Q(10)
                   /\ Le(Q(30), DX(signature_controller.rect))

\* The pointer overshot the opposite edge and the minimum size held it back.
C5_Witness ==
    /\ last.op = "resize"
    /\ Truthy(last.pre.rect)
    /\ last.args.handle = "e"
    /\ Lt(last.args.pdf_x, last.pre.rect.x0)
    /\ DX(signature_controller.rect) = last.args.min_width

(***************************************************************************)
(* C6.  In the Placed state move_to(canvas_x, canvas_y, page_rect,         *)
(* page_scale) keeps the rectangle's width, height and page index, puts    *)
(* its top-left on the canvas point mapped to PDF space whenever the       *)
(* rectangle then lies inside the page, and otherwise translates it so     *)
(* that it lies inside the page.                                           *)
(***************************************************************************)
C6_MoveTo ==
    (last.op = "move_to" /\ Truthy(last.pre.rect))
        => LET a     == last.args
               x_pdf == Add(Mul(a.canvas_x, a.page_scale[1]), a.page_rect.x0)
               y_pdf == Add(Mul(a.canvas_y, a.page_scale[2]), a.page_rect.y0)
               moved == Rect(x_pdf, y_pdf, Add(x_pdf, DX(last.pre.rect)),
                             Add(y_pdf, DY(last.pre.rect)))
               new   == signature_controller.rect
           IN  /\ SameSize(new, last.pre.rect)
               /\ signature_controller.page_index = last.pre.page_index
               /\ IF Inside(moved, a.page_rect)
                  THEN new.x0 = x_pdf /\ new.y0 = y_pdf
                  ELSE Inside(new, a.page_rect)

(***************************************************************************)
(* C7.  The size of a newly placed signature rectangle does not depend on  *)
(* the click position and is aspect-locked to the image: height = width *  *)
(* (image_height / image_width), with aspect 1 (height = width) when       *)
(* image_width is 0; image_size (100, 50) and max_width 80 on a page of at *)
(* least 80 x 40 give width 80 and height 40.                              *)
(***************************************************************************)
C7_SizeAspectLocked ==
    call.fn = "new_signature_rect"
        => LET r  == call.result
               iw == call.image_size[1]
               ih == call.image_size[2]
           IN  /\ \A x \in ClickCoords, y \in ClickCoords :
                    SameSize(new_signature_rect(Q(x), Q(y), call.page_rect,
                                                call.page_scale, call.image_size,
                                                call.max_width_points), r)
               /\ DY(r) = IF iw = 0 THEN DX(r) ELSE Div(Mul(DX(r), Q(ih)), Q(iw))
               /\ ( /\ call.image_size = <<100, 50>>
                    /\ call.max_width_points = Q(80)
                    /\ Le(Q(80), DX(call.page_rect))
                    /\ Le(Q(40), DY(call.page_rect)) )
                    => DX(r) = Q(80) /\ DY(r) = Q(40)

\* An image of width 0 was placed by a click that made the clamp slide the rectangle.
C7_Witness ==
    /\ call.fn = "new_signature_rect"
    /\ call.image_size[1] = 0
    /\ DY(call.result) = DX(call.result)
    /\ <<call.result.x0, call.result.y0>> #
           canvas_to_pdf(call.canvas_x, call.canvas_y, call.page_rect, call.page_scale)

(***************************************************************************)
(* C8.  For every page and max_width the width of the rectangle            *)
(* new_signature_rect returns is at least 10 PDF units and at most         *)
(* min(max_width, page width).                                             *)
(***************************************************************************)
C8_WidthBetweenBounds ==
    call.fn = "new_signature_rect"
        => /\ Le(Q(10), DX(call.result))
           /\ Le(DX(call.result), Min(call.max_width_points, DX(call.page_rect)))

(***************************************************************************)
(* C8, amended.  The width is at least 10 PDF units; it is at most         *)
(* min(max_width, page width) whenever that minimum is at least 10, and    *)
(* exactly 10 otherwise.                                                   *)
(***************************************************************************)
C8_WidthLowerBoundFirst ==
    call.fn = "new_signature_rect"
        => LET upper == Min(call.max_width_points, DX(call.page_rect))
           IN  /\ Le(Q(10), DX(call.result))
               /\ IF Le(Q(10), upper)
                  THEN Le(DX(call.result), upper)
                  ELSE DX(call.result) = Q(10)

\* A page narrower than 10 units: the width is 10, more than the page's.
C8_Witness ==
    /\ call.fn = "new_signature_rect"
    /\ Lt(DX(call.page_rect), Q(10))
    /\ DX(call.result) = Q(10)

(***************************************************************************)
(* C9.  Round trip: for any page_rect and any scale pair with nonzero      *)
(* components, the corners of a canvas rectangle mapped to PDF space with  *)
(* canvas_to_pdf and the resulting PDF rectangle mapped back with          *)
(* pdf_rect_to_canvas_rect give the canvas rectangle again.                *)
(***************************************************************************)
C9_RoundTrip ==
    ( /\ call.fn = "round_trip"
      /\ ~IsZero(call.page_scale[1])
      /\ ~IsZero(call.page_scale[2]) )
        => call.back = call.canvas

\* A round trip through a page with an origin off (0, 0) and two different scales.
C9_Witness ==
    /\ call.fn = "round_trip"
    /\ call.page_scale = <<Rat(1, 2), Rat(-3, 4)>>
    /\ call.page_rect.x0 # Q(0)
    /\ call.canvas[1] # call.canvas[3]
    /\ <<call.pdf.x0, call.pdf.y0, call.pdf.x1, call.pdf.y1>> # call.canvas
    /\ call.back = call.canvas

(***************************************************************************)
(* C10.  set_image(path), called in any state, Placed included, leaves the *)
(* controller with image_path = path, no rectangle and no page index.      *)
(***************************************************************************)
C10_SetImageStartsAfresh ==
    last.op = "set_image"
        => /\ signature_controller.image_path = last.args.image_path
           /\ signature_controller.rect = None
           /\ signature_controller.page_index = None

\* set_image was called with another image while a rectangle was placed.
C10_Witness ==
    /\ last.op = "set_image"
    /\ last.pre.rect # None
    /\ last.pre.page_index # None
    /\ last.pre.image_path # None
    /\ last.pre.image_path # last.args.image_path
    /\ signature_controller.rect = None

C19_ReloadSwallowsFailure ==
    last.op = "reload"
        => IF last.args.opened = RuntimeError
           THEN /\ last.result = None
                /\ doc_controller = last.pre
           ELSE /\ last.result = last.args.opened
                /\ doc_controller.doc = last.args.opened
                /\ doc_controller.current_file = last.args.path
                /\ doc_controller.page_index = 0

\* A reload failed while a document was open away from its first page.
C19_Witness ==
    /\ last.op = "reload"
    /\ last.args.opened = RuntimeError
    /\ last.pre.doc # None
    /\ last.pre.page_index > 0
    /\ last.pre.current_file # last.args.path
    /\ last.result = None
    /\ doc_controller.doc = last.pre.doc

(***************************************************************************)
(* C11.  In every state reachable through the window's event handlers a    *)
(* placement rectangle exists only if a signature image is loaded, a page  *)
(* index is recorded with it and a document is open; the rectangle is None *)
(* exactly when the placement's page index is None.                        *)
(***************************************************************************)
C11_PlacementNeedsImagePageDocument ==
    LET sig == app.signature_controller
    IN  /\ sig.rect # None
            => /\ sig.image_path # None
               /\ sig.page_index # None
               /\ app.doc_controller.doc # None
        /\ (sig.rect = None) <=> (sig.page_index = None)

\* A click on the second page of a document has made a placement.
C11_Witness ==
    /\ last.op = "press"
    /\ last.pre.signature_controller.rect = None
    /\ app.signature_controller.rect # None
    /\ app.signature_controller.page_index = Index(1)
    /\ app.signature_controller.image_path # None
    /\ app.doc_controller.doc # None

(***************************************************************************)
(* C14.  Page navigation never touches the placement: after _next_page or  *)
(* _prev_page, the render included, the signature controller's image,      *)
(* rectangle and page index are what they were before.                     *)
(***************************************************************************)
C14_NavigationKeepsPlacement ==
    last.op \in {"_next_page", "_prev_page"}
        => app.signature_controller = last.pre.signature_controller

\* Back on the first page, where the signature was placed, and its overlay is drawn again.
C14_Witness ==
    /\ last.op = "_prev_page"
    /\ last.pre.doc_controller.page_index = 1
    /\ app.doc_controller.page_index = 0
    /\ last.pre.signature_overlay = None
    /\ app.signature_controller.rect # None
    /\ app.signature_controller.page_index = Index(0)
    /\ app.signature_overlay # None

(***************************************************************************)
(* C15.  A handler that closes the document (_open_pdf once a file is      *)
(* chosen, and the reload after a save) leaves no image path, rectangle or *)
(* placement page index and no interaction state (not dragging, not        *)
(* resizing, no active handle), and the render it runs afterwards has      *)
(* drawn no overlay: no overlay rectangle, image item or handle is held or *)
(* on the canvas.                                                          *)
(***************************************************************************)
Closes ==
    \/ last.op = "_open_pdf" /\ last.args.filename # None
    \/ /\ last.op = "_save_pdf"
       /\ last.args.written # None
       /\ last.args.reopened # RuntimeError

C15_CloseClearsBeforeRender ==
    Closes
        => /\ app.signature_controller.image_path = None
           /\ app.signature_controller.rect = None
           /\ app.signature_controller.page_index = None
           /\ ~app.is_dragging
           /\ ~app.is_resizing
           /\ app.active_handle = None
           /\ app.signature_overlay = None
           /\ app.signature_image_item = None
           /\ app.signature_handles = {}
           /\ app.canvas.items \cap ({"overlay", "image"} \cup HandleNames) = {}

\* A document was opened in the middle of a drag of a signature placed on the
\* first page of the previous one, and its first page is rendered.
C15_Witness ==
    /\ last.op = "_open_pdf"
    /\ last.pre.is_dragging
    /\ last.pre.signature_overlay # None
    /\ last.pre.signature_controller.page_index = Index(0)
    /\ app.doc_controller.doc # None
    /\ app.doc_controller.page_index = 0
    /\ app.canvas.items = {"page"}

(***************************************************************************)
(* C16.  When the PDF library fails to open the file chosen, the error is  *)
(* reported and the session is unchanged: the document, the current file,  *)
(* the page index and the placement (image, rectangle, page) are what they *)
(* were before the attempt.                                                *)
(***************************************************************************)
C16_OpenFailureKeepsSession ==
    (last.op = "_open_pdf" /\ last.args.filename # None /\ Opener(last.args.filename) = RuntimeError)
        => /\ last.report = "error"
           /\ app.doc_controller = last.pre.doc_controller
           /\ app.signature_controller = last.pre.signature_controller

(***************************************************************************)
(* C17.  A save that fails (opening the copy, inserting the image or       *)
(* writing the file raises) leaves the placement (image path, rectangle,   *)
(* page index) and the document cursor (document, current file, page       *)
(* index) as they were before it.                                          *)
(***************************************************************************)
C17_SaveFailureKeepsState ==
    (last.op = "_save_pdf" /\ last.report = "error")
        => /\ app.signature_controller = last.pre.signature_controller
           /\ app.doc_controller = last.pre.doc_controller

\* The write failed with a signature placed on the second page.
C17_Witness ==
    /\ last.op = "_save_pdf"
    /\ last.report = "error"
    /\ ~last.args.saved
    /\ app.signature_controller.rect # None
    /\ app.doc_controller.page_index = 1
    /\ app.doc_controller.doc # None

(***************************************************************************)
(* C18.  After a save that succeeds and whose reload of the file saved     *)
(* succeeds, the session holds an open document whose current file is the  *)
(* path saved and whose page index is in range.                            *)
(***************************************************************************)
C18_SavedDocumentShown ==
    ( /\ last.op = "_save_pdf"
      /\ last.args.written # None
      /\ last.args.reopened # RuntimeError )
        => /\ app.doc_controller.doc # None
           /\ app.doc_controller.current_file = last.args.filename
           /\ app.doc_controller.page_index \in 0 .. (page_count(app.doc_controller) - 1)

(***************************************************************************)
(* C20.  In every reachable state the interaction state is one of Idle,    *)
(* Dragging, Resizing: the dragging and resizing flags are never both      *)
(* true, and an active handle is set exactly when resizing.                *)
(***************************************************************************)
C20_InteractionExclusive ==
    /\ ~(app.is_dragging /\ app.is_resizing)
    /\ (app.active_handle # None) <=> app.is_resizing

\* A press on the west handle starts a resize of a signature dragged before.
C20_Witness ==
    /\ last.op = "press"
    /\ "w" \in last.args.handles
    /\ last.pre.drag_offset # <<Q(0), Q(0)>>
    /\ ~last.pre.is_resizing
    /\ app.is_resizing
    /\ app.active_handle = Handle("w")
    /\ ~app.is_dragging

(***************************************************************************)
(* C21: every drag and every resize ends on the release of the pointer     *)
(* button with nothing left of it.  After the release, and for as long as  *)
(* the button stays up, the window is idle (not dragging, not resizing, no *)
(* active handle) and no handler is bound to pointer motion or release;    *)
(* pointer motion that reaches an idle window changes nothing, the         *)
(* placement rectangle included.                                           *)
(***************************************************************************)
Idle(self) == ~self.is_dragging /\ ~self.is_resizing /\ self.active_handle = None

Unbound(self) == self.canvas.motion = None /\ self.canvas.release = None

C21_ReleaseLeavesNothing ==
    /\ last.op = "release" => Idle(app) /\ Unbound(app)
    /\ ~env.button_down => Idle(app) /\ Unbound(app)
    /\ last.op = "motion" /\ Idle(last.pre) => app = last.pre

\* A drag that has moved the rectangle is ended by the release.
C21_Witness ==
    /\ last.op = "release"
    /\ last.pre.is_dragging
    /\ last.pre.canvas.release = Handler("_end_drag")
    /\ resizes > 0
    /\ Truthy(app.signature_controller.rect)

\* A resize is ended by the release.
C21_WitnessResize ==
    /\ last.op = "release"
    /\ last.pre.is_resizing
    /\ last.pre.active_handle # None

\* Pointer motion reaches a window that holds a placement and is idle.
C21_WitnessIdleMotion ==
    /\ last.op = "motion"
    /\ Idle(last.pre)
    /\ Truthy(last.pre.signature_controller.rect)

(***************************************************************************)
(* C22: the re-render is debounced.  At every moment at most one render    *)
(* callback is pending, and it is the one whose id the window holds; a     *)
(* canvas-resize event with a document open leaves exactly one pending     *)
(* callback, the one it scheduled, the one pending before having been      *)
(* cancelled; and after the callback has fired or a render has run         *)
(* directly (page navigation, a document opened) none is pending and no id *)
(* is held.                                                                *)
(***************************************************************************)
C22_OnePendingRender ==
    /\ Cardinality(app.after) <= 1
    /\ app.after = IF app.render_job = None THEN {} ELSE {app.render_job}
    /\ last.op = "_handle_canvas_resize" /\ DocTruthy(last.pre.doc_controller.doc) =>
            /\ app.render_job # None
            /\ app.after = {app.render_job}
    /\ \/ last.op \in {"_render_page", "_prev_page", "_next_page"}
       \/ last.op = "_open_pdf" /\ last.args.filename # None /\ last.report = ""
       => app.render_job = None /\ app.after = {}

\* A resize event arrives while a render is pending.
C22_Witness ==
    /\ last.op = "_handle_canvas_resize"
    /\ last.pre.after # {}
    /\ app.after # {}

\* The pending callback fires.
C22_WitnessFires ==
    /\ last.op = "_render_page"
    /\ last.pre.render_job # None

\* A render runs directly while a callback is pending.
C22_WitnessDirect ==
    /\ last.op \in {"_prev_page", "_next_page"}
    /\ last.pre.after # {}

(***************************************************************************)
(* C23: every failure of insert_image, the image file missing or the page  *)
(* index not in the document, is raised as PDFOperationError, and then     *)
(* nothing has been inserted into the document.                            *)
(***************************************************************************)
C23_FailuresWrapped ==
    ( /\ call.fn = "insert_image"
      /\ ~call.exists \/ call.page_index \notin 0 .. (call.doc.page_count - 1) )
        => /\ call.result = PDFOperationError
           /\ call.after = call.doc

(***************************************************************************)
(* C24: when the signature image chosen cannot be decoded, the failure is  *)
(* reported through the message service and the placement is as it was:    *)
(* image path, rectangle and page index of the signature controller, the   *)
(* overlay items held and the items on the canvas.                         *)
(***************************************************************************)
C24_BadImageKeepsPlacement ==
    ( /\ last.op = "_load_signature"
      /\ last.args.candidate # None
      /\ ~Decodes(last.args.candidate)
      /\ DocTruthy(last.pre.doc_controller.doc) )
        => /\ last.report = "error"
           /\ app.signature_controller = last.pre.signature_controller
           /\ app.signature_overlay = last.pre.signature_overlay
           /\ app.signature_image_item = last.pre.signature_image_item
           /\ app.signature_handles = last.pre.signature_handles
           /\ app.canvas = last.pre.canvas

\* An image that does not decode is chosen while a signature is placed and drawn.
C24_Witness ==
    /\ last.op = "_load_signature"
    /\ last.args.candidate = Path("bad.png")
    /\ last.report = "error"
    /\ Truthy(app.signature_controller.rect)
    /\ app.signature_controller.image_path = Path("signature.png")
    /\ "overlay" \in app.canvas.items

(***************************************************************************)
(* C25: no failure of a collaborator leaves an event handler.  Whenever    *)
(* the PDF opener, the image decoder or the save fails during a handler    *)
(* (open, insert image, canvas click, save and the reload after it), the   *)
(* handler returns normally and has reported the failure through the       *)
(* message service.                                                        *)
(***************************************************************************)
\* A collaborator failed during the handler recorded in `last`.
CollaboratorFailed ==
    \/ /\ last.op = "_open_pdf"
       /\ last.args.filename # None
       /\ Opener(last.args.filename) = RuntimeError
    \/ /\ last.op = "_load_signature"
       /\ DocTruthy(last.pre.doc_controller.doc)
       /\ last.args.candidate # None
       /\ ~Decodes(last.args.candidate)
    \/ /\ last.op = "_save_pdf"
       /\ DocTruthy(last.pre.doc_controller.doc)
       /\ last.args.filename # None
       /\ \/ last.args.copied = RuntimeError
          \/ ~last.args.saved
          \/ last.args.reopened = RuntimeError
          \/ /\ ~last.args.exists
             /\ last.pre.signature_controller.image_path # None
             /\ last.pre.signature_controller.rect # None

C25_NoFailureEscapes ==
    /\ last.op # "none" => last.report \in {"", "info", "error"}
    /\ last.op # "none" /\ CollaboratorFailed => last.report = "error"

(***************************************************************************)
(* C26: click dispatch.  A press on the canvas inside the placement        *)
(* rectangle on the page shown, while no resize is active, starts a drag,  *)
(* records the offset of the press from the rectangle's origin and leaves  *)
(* the rectangle as it is.  Any other press with an image loaded and no    *)
(* resize in progress makes a new placement on the page shown, in place of *)
(* the one there was.  A press while resizing (the press on a handle that  *)
(* starts the resize included), with no image loaded or with no document   *)
(* neither changes the placement nor starts a drag.                        *)
(***************************************************************************)
\* The placement (rectangle and page index) is the one before the handler.
SamePlacement ==
    /\ app.signature_controller.rect = last.pre.signature_controller.rect
    /\ app.signature_controller.page_index = last.pre.signature_controller.page_index

C26_ClickDispatch ==
    last.op = "press" =>
        LET pre      == last.pre
            sig      == pre.signature_controller
            x        == last.args.x
            y        == last.args.y
            resizing == pre.is_resizing \/ last.args.handles # {}
            inside   == /\ Truthy(sig.rect)
                        /\ OnCurrentPage(pre)
                        /\ point_in_signature(sig, x, y, pre.page_rect, pre.page_scale)
            c        == pdf_rect_to_canvas_rect(sig.rect, pre.page_rect, pre.page_scale)
        IN  IF ~DocTruthy(pre.doc_controller.doc) \/ resizing
            THEN SamePlacement /\ ~app.is_dragging
            ELSE IF inside
            THEN /\ SamePlacement
                 /\ app.is_dragging
                 /\ app.drag_offset = <<Sub(x, c[1]), Sub(y, c[2])>>
            ELSE IF sig.image_path = None
            THEN SamePlacement /\ ~app.is_dragging
            ELSE /\ app.signature_controller.rect =
                        new_signature_rect(x, y, pre.page_rect, pre.page_scale,
                                           ImageSize(sig.image_path), sig.max_width_points)
                 /\ app.signature_controller.page_index = Index(pre.doc_controller.page_index)
                 /\ ~app.is_dragging

(***************************************************************************)
(* C27: a resize is bound to the edge of its handle exclusively.  For      *)
(* every pointer position, resize with handle "n" changes only y0, "s"     *)
(* only y1, "w" only x0 and "e" only x1: the other three coordinates of    *)
(* the placement rectangle and its page index are the ones before.         *)
(***************************************************************************)
\* The coordinates of a rectangle other than the one a handle moves.
OtherEdges(handle, r) ==
    CASE handle = "n" -> <<r.x0, r.x1, r.y1>>
      [] handle = "s" -> <<r.x0, r.x1, r.y0>>
      [] handle = "w" -> <<r.y0, r.y1, r.x1>>
      [] OTHER        -> <<r.y0, r.y1, r.x0>>

C27_ResizeMovesOneEdge ==
    ( /\ last.op = "resize"
      /\ Truthy(last.pre.rect) )
        => /\ OtherEdges(last.args.handle, signature_controller.rect)
                = OtherEdges(last.args.handle, last.pre.rect)
           /\ signature_controller.page_index = last.pre.page_index

(***************************************************************************)
(* C28: move_to and resize called when no rectangle is placed (no image    *)
(* set, or an image set and not placed yet) return None and leave the      *)
(* image path, the rectangle and the page index as they are.               *)
(***************************************************************************)
C28_UnplacedIsNoOp ==
    ( /\ last.op \in {"move_to", "resize"}
      /\ last.pre.rect = None )
        => /\ last.result = None
           /\ signature_controller = last.pre

\* resize is called with an image set and nothing placed.
C28_Witness ==
    /\ last.op = "resize"
    /\ last.pre.rect = None
    /\ last.pre.image_path # None
    /\ last.result = None

\* move_to is called on the controller as constructed.
C28_WitnessMoveTo ==
    /\ last.op = "move_to"
    /\ last.pre.rect = None
    /\ last.pre.image_path = None
    /\ last.result = None

(***************************************************************************)
(* C29: a save that succeeds writes a copy of the current file opened for  *)
(* the save.  The file written holds exactly one inserted image, at the    *)
(* placement's rectangle on the placement's page, when an image and a      *)
(* rectangle are set, and no inserted image otherwise; and nothing is ever *)
(* inserted through the document handle the session holds.                 *)
(***************************************************************************)
C29_SaveWritesCopy ==
    /\ app.doc_controller.doc # None => app.doc_controller.doc.images = <<>>
    /\ ( /\ last.op = "_save_pdf"
         /\ last.args.written # None )
           => LET sig     == last.pre.signature_controller
                  written == last.args.written
              IN  /\ last.args.copied # RuntimeError
                  /\ last.args.copied.name = last.pre.doc_controller.current_file
                  /\ last.args.copied.images = <<>>
                  /\ written.name = last.args.filename
                  /\ written.page_count = last.args.copied.page_count
                  /\ written.images =
                         IF sig.image_path # None /\ sig.rect # None
                         THEN << [page_index |-> sig.page_index[1], rect |-> sig.rect,
                                  filename |-> sig.image_path, keep_proportion |-> TRUE,
                                  overlay |-> TRUE] >>
                         ELSE <<>>

\* A signature placed on the second page is saved, and the reload of the file
\* written fails, so that the session still holds its document.
C29_Witness ==
    /\ last.op = "_save_pdf"
    /\ last.args.written # None
    /\ Len(last.args.written.images) = 1
    /\ last.args.written.images[1].page_index = 1
    /\ last.args.reopened = RuntimeError
    /\ app.doc_controller.doc # None

\* A document is saved with an image chosen and not placed: nothing is inserted.
C29_WitnessNoPlacement ==
    /\ last.op = "_save_pdf"
    /\ last.args.written # None
    /\ last.pre.signature_controller.image_path # None
    /\ last.pre.signature_controller.rect = None
    /\ last.args.written.images = <<>>

(***************************************************************************)
(* C30: in every reachable state in which a placement rectangle exists,    *)
(* whatever sequence of place_on_page, move_to and resize led to it, the   *)
(* rectangle has x0 <= x1 and y0 <= y1.                                    *)
(***************************************************************************)
C30_RectOrdered ==
    signature_controller.rect # None
        => /\ Le(signature_controller.rect.x0, signature_controller.rect.x1)
           /\ Le(signature_controller.rect.y0, signature_controller.rect.y1)

\* A resize by the west handle with the pointer beyond the east edge, after a move.
C30_Witness ==
    /\ last.op = "resize"
    /\ last.args.handle = "w"
    /\ last.pre.rect # None
    /\ Lt(last.pre.rect.x1, last.args.pdf_x)
    /\ resizes = MaxResizes
    /\ Lt(signature_controller.rect.x0, signature_controller.rect.x1)


(***************************************************************************)
(* C31: when insert_image succeeds it has called the page's insert_image   *)
(* exactly once, on the page asked for, with the rectangle given, or with  *)
(* the default rectangle (36, 36, 300, 300) when none was given, with      *)
(* keep_proportion and overlay both true, and it returns the rectangle it  *)
(* used.                                                                   *)
(***************************************************************************)
Succeeded(c) == c.result \notin {PDFOperationError, IndexError, ValueError}

RectAsked(c) == IF c.rect = None THEN DEFAULT_INSERT_RECT ELSE c.rect

C31_InsertsOnceAsAsked ==
    (call.fn = "insert_image" /\ Succeeded(call))
        => /\ call.after = [call.doc EXCEPT !.images = Append(@,
                               [page_index |-> call.page_index,
                                rect |-> RectAsked(call),
                                filename |-> call.image_path,
                                keep_proportion |-> TRUE,
                                overlay |-> TRUE])]
           /\ call.result = RectAsked(call)

\* The same for every rectangle but the one whose four coordinates are 0.
C31_ExceptZeroRect ==
    (call.fn = "insert_image" /\ call.rect # IntRect(0, 0, 0, 0))
        => C31_InsertsOnceAsAsked

\* A rectangle is given, and none is.
C31_WitnessGiven ==
    /\ call.fn = "insert_image"
    /\ Succeeded(call)
    /\ call.rect = IntRect(10, 20, 30, 40)

C31_WitnessDefault ==
    /\ call.fn = "insert_image"
    /\ Succeeded(call)
    /\ call.rect = None
    /\ call.result = DEFAULT_INSERT_RECT


(***************************************************************************)
(* C32: fill_form_fields sets the value of, and updates, exactly the       *)
(* widgets whose field name is a key of the mapping given, leaves every    *)
(* other widget as it was, and returns the names of the widgets updated in *)
(* page-then-widget order; with an empty mapping it returns an empty list  *)
(* and touches no widget.                                                  *)
(***************************************************************************)
\* The widget's field name is a key of the mapping.
Keyed(widget, values) == widget.field_name \in DOMAIN values

\* ... and is not the empty name.
KeyedNamed(widget, values) ==
    widget.field_name # Str("") /\ Keyed(widget, values)

\* The widgets of the pages, page after page.
RECURSIVE Flat(_)
Flat(pages) ==
    IF pages = <<>> THEN <<>> ELSE Head(pages).widgets \o Flat(Tail(pages))

NamesOf(widgets) == [i \in 1 .. Len(widgets) |-> widgets[i].field_name]

\* The call c filled exactly the widgets that K selects.
Filled(c, K(_, _)) ==
    LET before == c.doc.pages
        after == c.after.pages
    IN  /\ Len(after) = Len(before)
        /\ \A p \in 1 .. Len(before) :
            /\ Len(after[p].widgets) = Len(before[p].widgets)
            /\ \A i \in 1 .. Len(before[p].widgets) :
                LET widget == before[p].widgets[i]
                IN  after[p].widgets[i] =
                        IF K(widget, c.values)
                        THEN [widget EXCEPT !.field_value = c.values[widget.field_name],
                                            !.updates = @ + 1]
                        ELSE widget
        /\ c.result = NamesOf(SelectSeq(Flat(before), LAMBDA widget : K(widget, c.values)))
        /\ (DOMAIN c.values = {}) => (c.result = <<>> /\ c.after = c.doc)

C32_FillsKeyedWidgets ==
    call.fn = "fill_form_fields" => Filled(call, Keyed)

\* C32 as amended: ... exactly the widgets whose field name is not empty and
\* is a key of the mapping given ...
C32_FillsNamedKeyedWidgets ==
    call.fn = "fill_form_fields" => Filled(call, KeyedNamed)

\* Two pages with a widget filled on each, under different names, and a
\* widget left alone.
C32_Witness ==
    /\ call.fn = "fill_form_fields"
    /\ call.result = <<Str("email"), Str("name")>>
    /\ Len(call.doc.pages) = 2
    /\ Len(call.doc.pages[1].widgets) = 1
    /\ Len(call.doc.pages[2].widgets) = 2
    /\ call.after.pages[1].widgets[1].updates = 1
    /\ call.after.pages[2].widgets[2].updates = 1
    /\ call.after.pages[2].widgets[1] = Widget(Str(""))

\* The empty mapping on a document whose widgets have names.
C32_WitnessEmptyMapping ==
    /\ call.fn = "fill_form_fields"
    /\ DOMAIN call.values = {}
    /\ Len(call.doc.pages) = 1
    /\ NamesOf(call.doc.pages[1].widgets) = <<Str("name"), Str("email")>>


(***************************************************************************)
(* C33: after every render of the page that carries the placement, the     *)
(* debounced render that follows a resize of the canvas while the overlay  *)
(* is shown included, the overlay rectangle, the signature image item and  *)
(* the four resize handles the window refers to are items of the canvas:   *)
(* no item id the window holds is one that the render's delete("all")      *)
(* removed.                                                                *)
(***************************************************************************)
\* A render has just run: the pending callback fired, or a page button.
Rendered == last.op \in {"_render_page", "_prev_page", "_next_page"}

\* The page shown carries the placement.
PlacementShown(self) ==
    /\ DocTruthy(self.doc_controller.doc)
    /\ Truthy(self.signature_controller.rect)
    /\ self.signature_controller.image_path # None
    /\ OnCurrentPage(self)

C33_OverlayItemsExist ==
    (Rendered /\ PlacementShown(app))
        => /\ app.signature_overlay # None
           /\ app.signature_image_item # None
           /\ app.signature_handles = HandleNames
           /\ OverlayItems(app) \subseteq app.canvas.items

\* The first render of the placement's page, coming from another page,
\* creates the items.
C33_FirstRenderDraws ==
    (Rendered /\ PlacementShown(app) /\ last.pre.signature_overlay = None)
        => /\ app.signature_handles = HandleNames
           /\ OverlayItems(app) = {"overlay", "image"} \cup HandleNames
           /\ OverlayItems(app) \subseteq app.canvas.items

C33_WitnessFirstRender ==
    /\ Rendered
    /\ PlacementShown(app)
    /\ last.pre.signature_overlay = None

\* The debounced render while the overlay is shown.
C33_WitnessDebounced ==
    /\ last.op = "_render_page"
    /\ PlacementShown(app)
    /\ last.pre.signature_overlay # None
    /\ OverlayItems(last.pre) \subseteq last.pre.canvas.items


(***************************************************************************)
(* C34: no document handle is leaked.  After any sequence of opens, saves  *)
(* (that succeed or fail), reloads and closes, every handle obtained from  *)
(* the PDF opener has been closed, except the one held as the session's    *)
(* document.                                                               *)
(***************************************************************************)
SessionHandles == IF app.doc_controller.doc # None THEN 1 ELSE 0

C34_NoHandleLeaked == env.handles = SessionHandles

C34_WitnessFailedSave ==
    /\ last.op = "_save_pdf"
    /\ last.report = "error"
    /\ last.args.copied # RuntimeError

C34_WitnessSaved ==
    /\ last.op = "_save_pdf"
    /\ last.args.written # None


(***************************************************************************)
(* C35: in every reachable state the Save PDF and the Insert Image buttons *)
(* are enabled only while a document is open, that is while the document   *)
(* controller holds a document handle.                                     *)
(***************************************************************************)
C35_ButtonsOnlyWithDocument ==
    (app.save_button = "normal" \/ app.image_button = "normal")
        => app.doc_controller.doc # None

\* The same until a save has written its file and reopened it.
C35_UntilSaved ==
    app.last_saved = None => C35_ButtonsOnlyWithDocument

\* Both buttons enabled with a document open, both disabled after a failed open.
C35_WitnessEnabled ==
    /\ app.save_button = "normal"
    /\ app.image_button = "normal"
    /\ app.doc_controller.doc # None

C35_WitnessDisabled ==
    /\ last.op = "_open_pdf"
    /\ last.report = "error"
    /\ last.pre.save_button = "normal"
    /\ app.save_button = "disabled"
    /\ app.image_button = "disabled"
    /\ app.doc_controller.doc = None


(***************************************************************************)
(* C36: the drag and resize computations written out in the window agree   *)
(* with the signature controller.  For the same prior rectangle, pointer   *)
(* position, page rectangle and page scale, _drag_move leaves the          *)
(* rectangle that SignatureController.move_to yields for the pointer minus *)
(* the drag offset, and _resize_drag leaves the rectangle that             *)
(* SignatureController.resize yields for the pointer's PDF coordinates     *)
(* with the default minimum of 20 by 20.                                   *)
(***************************************************************************)
\* A pointer motion went to the handler named, which got past its guards.
MotionTo(name) ==
    /\ last.op = "motion"
    /\ last.pre.canvas.motion = Handler(name)
    /\ Truthy(last.pre.signature_controller.rect)
    /\ Truthy(last.pre.page_rect)

DragAgrees ==
    (MotionTo("_drag_move") /\ last.pre.is_dragging)
        => app.signature_controller.rect =
               move_to(last.pre.signature_controller,
                       Sub(last.args.x, last.pre.drag_offset[1]),
                       Sub(last.args.y, last.pre.drag_offset[2]),
                       last.pre.page_rect, last.pre.page_scale).result

ResizeAgrees ==
    (MotionTo("_resize_drag") /\ last.pre.active_handle # None)
        => LET p == canvas_to_pdf(last.args.x, last.args.y,
                                  last.pre.page_rect, last.pre.page_scale)
           IN  app.signature_controller.rect =
                   resize(last.pre.signature_controller, last.pre.active_handle[1],
                          p[1], p[2], last.pre.page_rect,
                          Q(DEFAULT_MIN_SIZE), Q(DEFAULT_MIN_SIZE)).result

C36_WindowAgreesWithController == DragAgrees /\ ResizeAgrees

\* A drag that moves the rectangle, with an offset that is not zero.
C36_Witness ==
    /\ MotionTo("_drag_move")
    /\ last.pre.is_dragging
    /\ last.pre.drag_offset # <<Q(0), Q(0)>>
    /\ app.signature_controller.rect # last.pre.signature_controller.rect

\* A resize that moves an edge.
C36_WitnessResize ==
    /\ MotionTo("_resize_drag")
    /\ last.pre.active_handle # None
    /\ app.signature_controller.rect # last.pre.signature_controller.rect


C37_WitnessLarger ==
    /\ call.fn = "clamp_rect"
    /\ call.result # call.rect
    /\ Lt(call.bounds.x1, call.result.x1)
    /\ Lt(call.bounds.y1, call.result.y1)

\* ... and one inside the bounds, away from their edges.
C37_WitnessInside ==
    /\ call.fn = "clamp_rect"
    /\ Lt(call.bounds.x0, call.rect.x0)
    /\ Lt(call.rect.x1, call.bounds.x1)
    /\ Lt(call.bounds.y0, call.rect.y0)
    /\ Lt(call.rect.y1, call.bounds.y1)
    /\ Lt(call.rect.x0, call.rect.x1)

====
